---- MODULE Spec2Model ----
(***************************************************************************)
(* Client-side page controllers of the language-learning site.            *)
(*                                                                         *)
(* This part models static/js/multi_draw.js, the collaborative drawing    *)
(* session: the page's global variables, the parts of the DOM the script  *)
(* writes, the inbound socket handlers and the UI actions.                *)
(*                                                                         *)
(* The page's markup is not part of the sources.  A style property the    *)
(* script has not written yet is therefore "unset", and text the script   *)
(* has not written yet is the empty string.                                *)
(***************************************************************************)
EXTENDS Integers, Sequences, FiniteSets, TLC

\* ------------------------------------------------------------------ bounds
\* pointer-down events between two resets
MaxStrokes == 3
\* cap on a participant's accumulated points
MaxPoints == 1
\* rounds of the matching game: a character_list arrives while fewer than MaxRounds
\* full rounds have been scored
MaxRounds == 1
\* chat: a new_message arrives while the two collections hold fewer than MaxMessages
MaxMessages == 3
\* dictionary: the entries of one dictionary_results payload
MaxResults == 3
\* homepage: the rows the leaderboard table may hold, and the leaders of one message
MaxRows == 4
MaxLeaders == 2
\* forms: the error strings of one message
MaxErrors == 2
\* profile: the clones one list may hold
MaxClones == 2
\* single player drawing: the score a player may reach
MaxScore == 2
\* two clients: the user_ready messages emitted in a round
MaxReadys == 3

\* the pointer positions (clientX - offsetLeft, clientY - offsetTop) of the events
Pos == {<<3, 4>>}
\* the room and the identities the server assigns: this client and its peer
Rooms == {1}
OwnIds == {1}
PeerIds == {2}
\* the identities inbound messages carry: this client, its peer, a stranger
UserIds == {1, 2, 3}
\* the points one result_img carries
Awards == {1}
\* the peer drawings recv_img carries
Images == {"data:image/png,peer"}
\* where move_user sends the page
Urls == {"/home"}

\* the payloads recv_challenge carries
Challenges == {[kana |-> "wa-kana", sound |-> "wa", sound_num |-> 44],
               [kana |-> "ka-kana", sound |-> "ka", sound_num |-> 6]}

Username(u) == "user" \o ToString(u)

VARIABLES
    \* globals of multi_draw.js
    drawing_, prevX, currX, prevY, currY, snapshots, strokeNum,
    waiting, room, own_id, status, kana, sound, sound_num,
    \* the page: rasters of the two canvases, style.display, style.backgroundColor, innerHTML
    ctx, other_ctx, display, backgroundColor, innerHTML,
    \* images whose decode (onload) is still outstanding
    loading,
    \* window.location: "game" until move_user replaces it
    location,
    \* the messages the latest handler handed to socket.emit, in order
    emitted,
    \* history: completed pointer-down -> pointer-up cycles since the last reset,
    \* and whether a pointer-down since the last reset still awaits its pointer-up
    cycles, downPending,
    \* history: a pointer-up since the last reset had no pointer-down awaiting it
    strayUp,
    \* history: the participants whose result_img arrived in the current round
    resultSeen,
    \* history: the handler that ran last ("init" after page load)
    handler,
    \* globals of matching-2.js (its 'points' is match_points here)
    characters, match_points, selected, not_allowed, found,
    \* the matching page: the cloned cards in document order, the innerHTML of 'result'
    \* and 'points', style.display of the 'not_allowed' overlay
    cards, match_text, match_overlay,
    \* history: whether the latest this_one passed its not_allowed test
    accepted,
    \* globals of chat.js (its 'info' and 'room' are chat_info and chat_room here)
    chat_info, your_ind, other_ind, chat_room,
    \* the chat page: the message nodes appended to 'messages_container', in document order
    nodes,
    \* global of dictionary.js, and the result boxes appended to 'search_results'
    current_index, search_results,
    \* the homepage: the rows inserted into the table 'leaderboard', top to bottom
    leaderboard_table,
    \* the form pages and the profile pages: the child nodes of each page's element 'errors',
    \* and the display of 'forgot_stuff' on the login page
    errors, forgot_stuff,
    \* the profile pages: which page is open, the text of its holders and form fields, the
    \* child nodes of 'awards_holder', the clones appended to the three lists, and
    \* history: whether the latest handler ended by an error it did not catch
    profile_href, fields, awards_holder, request_friends_list, friends_list, request_results_list, escaped,
    \* the single player drawing page: its global 'points' (the other globals of
    \* drawing_single.js are those of multi_draw.js above), the display of its controls,
    \* the background colour of its canvas, its texts and the correction panel
    single_points, single_display, canvas_colour, single_text, info_panel,
    \* history: the UserID of the latest 'info' message of that page (0: none yet)
    delivered_id,
    \* two clients of one room: for each the part of 'status' and 'room' that ready() and
    \* other_ready use, the other_ready messages in flight to it, and history: the
    \* user_ready messages the two clients have emitted
    peers, in_flight, user_readys

drawVars == <<drawing_, prevX, currX, prevY, currY, snapshots, strokeNum, ctx, cycles, downPending, strayUp>>
sessionVars == <<waiting, room, own_id, status, kana, sound, sound_num, resultSeen>>
pageVars == <<other_ctx, display, backgroundColor, innerHTML, loading, location>>
\* the variables of the collaborative drawing page
gamePageVars == <<drawVars, sessionVars, pageVars>>
\* the variables of the matching page
matchVars == <<characters, match_points, selected, not_allowed, found, cards, match_text, match_overlay, accepted>>
\* the variables of the chat page
chatVars == <<chat_info, your_ind, other_ind, chat_room, nodes>>
\* the variables of the dictionary page
dictionaryVars == <<current_index, search_results>>
\* the variables of the homepage
homeVars == <<leaderboard_table>>
\* the variables of the login, signup, settings and change-password forms
formVars == <<errors, forgot_stuff>>
\* the variables of the profile pages
profileVars == <<profile_href, fields, awards_holder, request_friends_list, friends_list, request_results_list, escaped>>
\* the variables of the single player drawing page
singleVars == <<single_points, single_display, canvas_colour, single_text, info_panel, delivered_id>>
\* the variables of the two clients of one room
pairVars == <<peers, in_flight, user_readys>>
vars == <<drawVars, sessionVars, pageVars, emitted, handler, matchVars, chatVars, dictionaryVars, homeVars, formVars, profileVars, singleVars, pairVars>>

\* what the handlers of one page leave alone: the variables of the other pages
offGamePage == <<matchVars, chatVars, dictionaryVars, homeVars, formVars, profileVars, singleVars, pairVars>>
offMatchingPage == <<gamePageVars, chatVars, dictionaryVars, homeVars, formVars, profileVars, singleVars, pairVars>>
offChatPage == <<gamePageVars, matchVars, dictionaryVars, homeVars, formVars, profileVars, singleVars, pairVars>>
offDictionaryPage == <<gamePageVars, matchVars, chatVars, homeVars, formVars, profileVars, singleVars, pairVars>>
offHomePage == <<gamePageVars, matchVars, chatVars, dictionaryVars, formVars, profileVars, singleVars, pairVars>>
offFormPages == <<gamePageVars, matchVars, chatVars, dictionaryVars, homeVars, profileVars, singleVars, pairVars>>
offProfilePages == <<gamePageVars, matchVars, chatVars, dictionaryVars, homeVars, formVars, singleVars, pairVars>>
\* the single player page has the drawing globals of the collaborative page, not the rest
multiOnly == <<waiting, room, status, resultSeen, pageVars>>
offSinglePage == <<multiOnly, matchVars, chatVars, dictionaryVars, homeVars, formVars, profileVars, pairVars>>
offPair == <<gamePageVars, matchVars, chatVars, dictionaryVars, homeVars, formVars, profileVars, singleVars>>

Elements == {"not_allowed", "overlay", "clr", "submit", "ready", "ready_message", "other_canvas"}
Canvases == {"drawing_canvas", "other_canvas"}
TextNodes == {"other-user", "you_points", "other_points", "draw-statement"}

\* ------------------------------------------------------------ pure helpers

\* an object is a sequence of [key, value] entries in insertion order
ObjKeys(obj) == {obj[i].key : i \in 1..Len(obj)}

\* obj[k] = v: an existing key keeps its place, a new key is appended
ObjSet(obj, k, v) ==
    IF k \in ObjKeys(obj)
    THEN [i \in 1..Len(obj) |-> IF obj[i].key = k THEN [key |-> k, value |-> v] ELSE obj[i]]
    ELSE Append(obj, [key |-> k, value |-> v])

\* JSON.stringify(obj): the text lists "key":"value" members in insertion order
JSONstringify(obj) == [i \in 1..Len(obj) |-> <<obj[i].key, obj[i].value>>]

\* the decoding the receiver of image_data applies, JSON.parse(text): the mapping the
\* text denotes (a later duplicate member wins)
JSONparse(text) ==
    [k \in {text[i][1] : i \in 1..Len(text)} |->
        LET last == CHOOSE i \in 1..Len(text) :
                        /\ text[i][1] = k
                        /\ \A j \in (i + 1)..Len(text) : text[j][1] # k
        IN text[last][2]]

\* canvas.toDataURL(): the encoded raster
toDataURL(raster) == <<"data:image/png", raster>>

\* the holders of the progress page in the order user_data fills them, and the fields of
\* the settings page in the order current_settings fills them
\* the two clients of a room; the peer of client c
Clients == {1, 2}
Peer(c) == 3 - c

\* the controls of the single player drawing page
SingleElements == {"not_allowed", "clr", "submit", "continue", "incorrect_drawing"}

Holders == <<"points_holder", "streak_holder", "character_holder", "total_holder",
             "next_steps_holder">>
SettingFields == <<"username", "email", "info-choice", "reminder-choice", "promo-choice">>
FieldIds == {Holders[n] : n \in 1..5} \cup {SettingFields[n] : n \in 1..5}

Message(data) == [event |-> "message", data |-> data]

\* --------------------------------------------------------------- page load
Init ==
    /\ drawing_ = FALSE
    /\ prevX = 0 /\ currX = 0 /\ prevY = 0 /\ currY = 0
    /\ snapshots = <<>>
    /\ strokeNum = 0
    /\ waiting = TRUE
    /\ room = 0
    /\ own_id = 0
    /\ status = [yourself |-> [submitted |-> FALSE, result |-> FALSE, user_id |-> 0,
                               ready |-> FALSE, points |-> 0],
                 other_user |-> [submitted |-> FALSE, result |-> FALSE, user_id |-> 0,
                                 ready |-> FALSE, points |-> 0]]
    /\ kana = "" /\ sound = "" /\ sound_num = 0
    /\ ctx = {}
    /\ other_ctx = {}
    /\ display = [e \in Elements |-> "unset"]
    /\ backgroundColor = [c \in Canvases |-> "unset"]
    /\ innerHTML = [t \in TextNodes |-> ""]
    /\ loading = {}
    /\ location = "game"
    /\ emitted = <<>>
    /\ cycles = 0
    /\ downPending = FALSE
    /\ strayUp = FALSE
    /\ resultSeen = [yourself |-> FALSE, other_user |-> FALSE]
    /\ handler = "init"
    /\ characters = <<>>
    /\ match_points = 0
    /\ selected = <<>>
    /\ not_allowed = <<>>
    /\ found = <<>>
    /\ cards = <<>>
    /\ match_text = [result |-> "", points |-> ""]
    /\ match_overlay = "unset"
    /\ accepted = FALSE
    /\ chat_info = [yours |-> [id_ |-> 0, messages |-> <<>>],
                    others |-> [id_ |-> 0, messages |-> <<>>]]
    /\ your_ind = 0
    /\ other_ind = 0
    /\ chat_room = 0
    /\ nodes = <<>>
    /\ current_index = 0
    /\ search_results = <<>>
    /\ leaderboard_table = <<>>
    /\ errors = [page \in {"forms", "profile"} |-> <<>>]
    /\ forgot_stuff = "none"
    /\ profile_href = "none"
    /\ fields = [id \in FieldIds |-> ""]
    /\ awards_holder = <<>>
    /\ request_friends_list = <<>>
    /\ friends_list = <<>>
    /\ request_results_list = <<>>
    /\ escaped = FALSE
    /\ single_points = 0
    /\ single_display = [e \in SingleElements |-> "unset"]
    /\ canvas_colour = "unset"
    /\ single_text = [draw_message |-> "", points |-> ""]
    /\ info_panel = [src |-> "", strokes |-> "", mistaken_for |-> ""]
    /\ delivered_id = 0
    /\ peers = [c \in Clients |-> [user_id |-> 0, other_id |-> 0, room |-> 0, ready |-> FALSE, other_ready |-> FALSE]]
    /\ in_flight = [c \in Clients |-> 0]
    /\ user_readys = <<>>

Loaded == location = "game"

\* ------------------------------------------------------------ drawing part

\* draw(): a round-capped line from (prevX, prevY) to (currX, currY); the raster is
\* the set of positions the ink covers
draw(raster, pX, pY, cX, cY) == raster \cup {<<pX, pY>>, <<cX, cY>>}

\* erase(): the part of the state erase() writes
erase ==
    /\ snapshots' = <<>>
    /\ strokeNum' = 0
    /\ ctx' = {}
    /\ cycles' = 0
    /\ downPending' = FALSE
    /\ strayUp' = FALSE

\* the key under which a pointer-up stores the raster
StrokeKey(n) == "stroke" \o ToString(n)

\* findcoords whose pointer-out stores a snapshot as a pointer-up does
findcoords_out_records(res, event) ==
    /\ Loaded
    /\ handler' = "findcoords"
    /\ res \in {"down", "up", "out", "move"}
    /\ strokeNum' = IF res = "down" THEN strokeNum + 1 ELSE strokeNum
    /\ IF res = "down" \/ (res = "move" /\ drawing_)
       THEN /\ prevX' = currX
            /\ prevY' = currY
            /\ currX' = event[1]
            /\ currY' = event[2]
       ELSE UNCHANGED <<prevX, prevY, currX, currY>>
    /\ drawing_' = CASE res = "down" -> TRUE
                     [] res \in {"up", "out"} -> FALSE
                     [] OTHER -> drawing_
    /\ snapshots' = IF res \in {"up", "out"}
                    THEN ObjSet(snapshots, StrokeKey(strokeNum), toDataURL(ctx))
                    ELSE snapshots
    /\ ctx' = IF res = "move" /\ drawing_
              THEN draw(ctx, currX, currY, event[1], event[2])
              ELSE ctx
    /\ downPending' = CASE res = "down" -> TRUE
                        [] res = "up" -> FALSE
                        [] OTHER -> downPending
    /\ cycles' = IF res = "up" /\ downPending THEN cycles + 1 ELSE cycles
    /\ strayUp' = (strayUp \/ (res = "up" /\ ~downPending))
    /\ emitted' = <<>>
    /\ UNCHANGED <<sessionVars, pageVars>>

\* findcoords(res, event): the listener of the four pointer events of drawing_canvas
findcoords(res, event) ==
    /\ Loaded
    /\ handler' = "findcoords"
    /\ res \in {"down", "up", "out", "move"}
    /\ strokeNum' = IF res = "down" THEN strokeNum + 1 ELSE strokeNum
    /\ IF res = "down" \/ (res = "move" /\ drawing_)
       THEN /\ prevX' = currX
            /\ prevY' = currY
            /\ currX' = event[1]
            /\ currY' = event[2]
       ELSE UNCHANGED <<prevX, prevY, currX, currY>>
    /\ drawing_' = CASE res = "down" -> TRUE
                     [] res \in {"up", "out"} -> FALSE
                     [] OTHER -> drawing_
    /\ snapshots' = IF res = "up"
                    THEN ObjSet(snapshots, StrokeKey(strokeNum), toDataURL(ctx))
                    ELSE snapshots
    /\ ctx' = IF res = "move" /\ drawing_
              THEN draw(ctx, currX, currY, event[1], event[2])
              ELSE ctx
    /\ downPending' = CASE res = "down" -> TRUE
                        [] res = "up" -> FALSE
                        [] OTHER -> downPending
    /\ cycles' = IF res = "up" /\ downPending THEN cycles + 1 ELSE cycles
    /\ strayUp' = (strayUp \/ (res = "up" /\ ~downPending))
    /\ emitted' = <<>>
    /\ UNCHANGED <<sessionVars, pageVars>>

\* the 'clear' button: erase()
clr_onclick ==
    /\ Loaded
    /\ handler' = "clr_onclick"
    /\ erase
    /\ emitted' = <<>>
    /\ UNCHANGED <<drawing_, prevX, currX, prevY, currY, sessionVars, pageVars>>

\* ------------------------------------------------------------ session part

\* colour_results() with the guard weakened to either participant having submitted
colour_results_either(st, disp, bg) ==
    IF st.yourself.submitted = TRUE \/ st.other_user.submitted = TRUE
    THEN [display |-> [disp EXCEPT !["ready"] = "block"],
          backgroundColor |->
              [bg EXCEPT !["other_canvas"] =
                             IF st.other_user.result = FALSE THEN "red" ELSE "#67e088",
                         !["drawing_canvas"] =
                             IF st.yourself.result = FALSE THEN "red" ELSE "#67e088"]]
    ELSE [display |-> disp, backgroundColor |-> bg]

\* colour_results(): the display and background colours it leaves, given the status
colour_results(st, disp, bg) ==
    IF st.yourself.submitted = TRUE /\ st.other_user.submitted = TRUE
    THEN [display |-> [disp EXCEPT !["ready"] = "block"],
          backgroundColor |->
              [bg EXCEPT !["other_canvas"] =
                             IF st.other_user.result = FALSE THEN "red" ELSE "#67e088",
                         !["drawing_canvas"] =
                             IF st.yourself.result = FALSE THEN "red" ELSE "#67e088"]]
    ELSE [display |-> disp, backgroundColor |-> bg]

\* clear_other(): the background colour it leaves (the raster becomes empty)
clear_other(bg) == [bg EXCEPT !["other_canvas"] = "white"]

\* save() without the test of 'waiting': it always submits
save_unguarded ==
    /\ Loaded
    /\ handler' = "save"
    /\ display' = [display EXCEPT !["clr"] = "none", !["submit"] = "none",
                                  !["other_canvas"] = "inline"]
    /\ emitted' = <<Message([UserID |-> own_id, EventType |-> "image_submit",
                             image_data |-> JSONstringify(snapshots),
                             room |-> room, sound_num |-> sound_num])>>
    /\ status' = [status EXCEPT !.yourself.submitted = TRUE]
    /\ UNCHANGED <<drawVars, waiting, room, own_id, kana, sound, sound_num, resultSeen>>
    /\ UNCHANGED <<other_ctx, backgroundColor, innerHTML, loading, location>>

\* save() that leaves the 'clear' button displayed after a submission
save_keeps_clr ==
    /\ Loaded
    /\ handler' = "save"
    /\ IF waiting = FALSE
       THEN /\ display' = [display EXCEPT !["submit"] = "none", !["other_canvas"] = "inline"]
            /\ emitted' = <<Message([UserID |-> own_id, EventType |-> "image_submit",
                                     image_data |-> JSONstringify(snapshots),
                                     room |-> room, sound_num |-> sound_num])>>
            /\ status' = [status EXCEPT !.yourself.submitted = TRUE]
            /\ UNCHANGED <<snapshots, strokeNum, ctx, cycles, downPending, strayUp>>
       ELSE /\ erase
            /\ emitted' = <<>>
            /\ UNCHANGED <<display, status>>
    /\ UNCHANGED <<drawing_, prevX, currX, prevY, currY>>
    /\ UNCHANGED <<waiting, room, own_id, kana, sound, sound_num, resultSeen>>
    /\ UNCHANGED <<other_ctx, backgroundColor, innerHTML, loading, location>>

\* save() that leaves the 'submit' button displayed after a submission
save_keeps_submit ==
    /\ Loaded
    /\ handler' = "save"
    /\ IF waiting = FALSE
       THEN /\ display' = [display EXCEPT !["clr"] = "none", !["other_canvas"] = "inline"]
            /\ emitted' = <<Message([UserID |-> own_id, EventType |-> "image_submit",
                                     image_data |-> JSONstringify(snapshots),
                                     room |-> room, sound_num |-> sound_num])>>
            /\ status' = [status EXCEPT !.yourself.submitted = TRUE]
            /\ UNCHANGED <<snapshots, strokeNum, ctx, cycles, downPending, strayUp>>
       ELSE /\ erase
            /\ emitted' = <<>>
            /\ UNCHANGED <<display, status>>
    /\ UNCHANGED <<drawing_, prevX, currX, prevY, currY>>
    /\ UNCHANGED <<waiting, room, own_id, kana, sound, sound_num, resultSeen>>
    /\ UNCHANGED <<other_ctx, backgroundColor, innerHTML, loading, location>>

\* the 'submit' button: save()
save ==
    /\ Loaded
    /\ handler' = "save"
    /\ IF waiting = FALSE
       THEN /\ display' = [display EXCEPT !["clr"] = "none", !["submit"] = "none",
                                          !["other_canvas"] = "inline"]
            /\ emitted' = <<Message([UserID |-> own_id, EventType |-> "image_submit",
                                     image_data |-> JSONstringify(snapshots),
                                     room |-> room, sound_num |-> sound_num])>>
            /\ status' = [status EXCEPT !.yourself.submitted = TRUE]
            /\ UNCHANGED <<snapshots, strokeNum, ctx, cycles, downPending, strayUp>>
       ELSE /\ erase
            /\ emitted' = <<>>
            /\ UNCHANGED <<display, status>>
    /\ UNCHANGED <<drawing_, prevX, currX, prevY, currY>>
    /\ UNCHANGED <<waiting, room, own_id, kana, sound, sound_num, resultSeen>>
    /\ UNCHANGED <<other_ctx, backgroundColor, innerHTML, loading, location>>

\* ready() that reports both = true whatever the peer's ready flag is
ready_both_always ==
    /\ Loaded
    /\ handler' = "ready"
    /\ display' = [display EXCEPT !["ready_message"] = "block"]
    /\ status' = [status EXCEPT !.yourself.ready = TRUE]
    /\ emitted' = <<Message([EventType |-> "user_ready",
                             UserID |-> status.yourself.user_id,
                             OtherID |-> status.other_user.user_id,
                             both |-> TRUE,
                             room |-> room])>>
    /\ UNCHANGED <<drawVars, waiting, room, own_id, kana, sound, sound_num, resultSeen>>
    /\ UNCHANGED <<other_ctx, backgroundColor, innerHTML, loading, location>>

\* the 'ready' button: ready()
ready ==
    /\ Loaded
    /\ handler' = "ready"
    /\ display' = [display EXCEPT !["ready_message"] = "block"]
    /\ status' = [status EXCEPT !.yourself.ready = TRUE]
    /\ emitted' = <<Message([EventType |-> "user_ready",
                             UserID |-> status.yourself.user_id,
                             OtherID |-> status.other_user.user_id,
                             both |-> (status.other_user.ready = TRUE),
                             room |-> room])>>
    /\ UNCHANGED <<drawVars, waiting, room, own_id, kana, sound, sound_num, resultSeen>>
    /\ UNCHANGED <<other_ctx, backgroundColor, innerHTML, loading, location>>

\* the 'leave game' button: leave_game()
leave_game ==
    /\ Loaded
    /\ handler' = "leave_game"
    /\ emitted' = <<Message([EventType |-> "leave_room", room |-> room])>>
    /\ UNCHANGED <<drawVars, sessionVars, pageVars>>

\* socket.on('connect')
connect ==
    /\ Loaded
    /\ handler' = "connect"
    /\ emitted' = <<Message([EventType |-> "check_allowed"]),
                    Message([EventType |-> "connected"])>>
    /\ UNCHANGED <<drawVars, sessionVars, pageVars>>

\* socket.on('move_user')
move_user(url) ==
    /\ Loaded
    /\ handler' = "move_user"
    /\ location' = url
    /\ emitted' = <<>>
    /\ UNCHANGED <<drawVars, sessionVars, other_ctx, display, backgroundColor, innerHTML, loading>>

\* allowed_check whose else branch hides the overlay again
allowed_check_hides(allowed) ==
    /\ Loaded
    /\ handler' = "allowed_check"
    /\ display' = [display EXCEPT !["not_allowed"] = IF allowed = FALSE THEN "block" ELSE "none"]
    /\ emitted' = <<>>
    /\ UNCHANGED <<drawVars, sessionVars, other_ctx, backgroundColor, innerHTML, loading, location>>

\* socket.on('allowed_check')
allowed_check(allowed) ==
    /\ Loaded
    /\ handler' = "allowed_check"
    /\ display' = IF allowed = FALSE
                  THEN [display EXCEPT !["not_allowed"] = "block"]
                  ELSE display
    /\ emitted' = <<>>
    /\ UNCHANGED <<drawVars, sessionVars, other_ctx, backgroundColor, innerHTML, loading, location>>

\* socket.on('info')
info(r, uid) ==
    /\ Loaded
    /\ handler' = "info"
    /\ room' = r
    /\ own_id' = uid
    /\ status' = [status EXCEPT !.yourself.user_id = uid]
    /\ emitted' = <<[event |-> "join", data |-> [username |-> uid, room |-> r]],
                    Message([UserID |-> uid, room |-> r, EventType |-> "waiting"])>>
    /\ UNCHANGED <<drawVars, waiting, kana, sound, sound_num, resultSeen, pageVars>>

\* recv_img without the anti-peeking test: the peer canvas is left as it is
recv_img_shows(image) ==
    /\ Loaded
    /\ handler' = "recv_img"
    /\ loading' = loading \cup {image}
    /\ status' = [status EXCEPT !.other_user.submitted = TRUE]
    /\ display' = [display EXCEPT !["other_canvas"] = "inline"]
    /\ emitted' = <<>>
    /\ UNCHANGED <<drawVars, waiting, room, own_id, kana, sound, sound_num, resultSeen>>
    /\ UNCHANGED <<other_ctx, backgroundColor, innerHTML, location>>

\* recv_img whose anti-peeking test reads the peer's flag, which it has just set
recv_img_tests_other(image) ==
    /\ Loaded
    /\ handler' = "recv_img"
    /\ loading' = loading \cup {image}
    /\ status' = [status EXCEPT !.other_user.submitted = TRUE]
    /\ display' = IF status'.other_user.submitted = FALSE
                  THEN [display EXCEPT !["other_canvas"] = "none"]
                  ELSE display
    /\ emitted' = <<>>
    /\ UNCHANGED <<drawVars, waiting, room, own_id, kana, sound, sound_num, resultSeen>>
    /\ UNCHANGED <<other_ctx, backgroundColor, innerHTML, location>>

\* socket.on('recv_img'): the decode of the image starts, its onload comes later
recv_img(image) ==
    /\ Loaded
    /\ handler' = "recv_img"
    /\ loading' = loading \cup {image}
    /\ status' = [status EXCEPT !.other_user.submitted = TRUE]
    /\ display' = IF status.yourself.submitted = FALSE
                  THEN [display EXCEPT !["other_canvas"] = "none"]
                  ELSE display
    /\ emitted' = <<>>
    /\ UNCHANGED <<drawVars, waiting, room, own_id, kana, sound, sound_num, resultSeen>>
    /\ UNCHANGED <<other_ctx, backgroundColor, innerHTML, location>>

\* img.onload of recv_img: context.drawImage(img, 0, 0) on other_canvas
onload(image) ==
    /\ Loaded
    /\ handler' = "onload"
    /\ image \in loading
    /\ loading' = loading \ {image}
    /\ other_ctx' = other_ctx \cup {image}
    /\ emitted' = <<>>
    /\ UNCHANGED <<drawVars, sessionVars, display, backgroundColor, innerHTML, location>>

\* socket.on('other_connection')
other_connection(username, uid) ==
    /\ Loaded
    /\ handler' = "other_connection"
    /\ display' = [display EXCEPT !["overlay"] = "none"]
    /\ innerHTML' = [innerHTML EXCEPT !["other-user"] = username]
    /\ status' = [status EXCEPT !.other_user.user_id = uid]
    /\ waiting' = FALSE
    /\ emitted' = <<>>
    /\ UNCHANGED <<drawVars, room, own_id, kana, sound, sound_num, resultSeen>>
    /\ UNCHANGED <<other_ctx, backgroundColor, loading, location>>

\* socket.on('wait')
wait ==
    /\ Loaded
    /\ handler' = "wait"
    /\ display' = [display EXCEPT !["overlay"] = "block"]
    /\ emitted' = <<Message([UserID |-> own_id, EventType |-> "waiting", room |-> room])>>
    /\ UNCHANGED <<drawVars, sessionVars, other_ctx, backgroundColor, innerHTML, loading, location>>

\* the participant a result_img carrying identity uid is attributed to
ResultOf(uid) == IF uid = own_id THEN "yourself" ELSE "other_user"

\* socket.on('result_img')
result_img(uid, result, points) ==
    /\ Loaded
    /\ handler' = "result_img"
    /\ LET who == ResultOf(uid)
           st == [status EXCEPT ![who].result = result,
                                ![who].points = IF result THEN @ + points ELSE @]
           shown == colour_results(st, display, backgroundColor)
       IN /\ status' = st
          /\ innerHTML' = IF result
                          THEN [innerHTML EXCEPT
                                   ![IF who = "yourself" THEN "you_points" ELSE "other_points"] =
                                       ToString(st[who].points) \o " POINTS"]
                          ELSE innerHTML
          /\ display' = shown.display
          /\ backgroundColor' = shown.backgroundColor
          /\ resultSeen' = [resultSeen EXCEPT ![who] = TRUE]
    /\ emitted' = <<>>
    /\ UNCHANGED <<drawVars, waiting, room, own_id, kana, sound, sound_num>>
    /\ UNCHANGED <<other_ctx, loading, location>>

\* other_ready without the test of the carried identity
other_ready_unchecked(uid) ==
    /\ Loaded
    /\ handler' = "other_ready"
    /\ status' = [status EXCEPT !.other_user.ready = TRUE]
    /\ emitted' = <<>>
    /\ UNCHANGED <<drawVars, waiting, room, own_id, kana, sound, sound_num, resultSeen, pageVars>>

\* socket.on('other_ready')
other_ready(uid) ==
    /\ Loaded
    /\ handler' = "other_ready"
    /\ status' = IF uid = status.other_user.user_id
                 THEN [status EXCEPT !.other_user.ready = TRUE]
                 ELSE status
    /\ emitted' = <<>>
    /\ UNCHANGED <<drawVars, waiting, room, own_id, kana, sound, sound_num, resultSeen, pageVars>>

\* the text recv_challenge writes into 'draw-statement'
DrawStatement(s) == "Draw the character for '" \o s \o "'"

\* recv_challenge that forgets to reset the peer's status record
recv_challenge_keeps_peer(data) ==
    /\ Loaded
    /\ handler' = "recv_challenge"
    /\ erase
    /\ backgroundColor' = clear_other([backgroundColor EXCEPT !["drawing_canvas"] = "white"])
    /\ other_ctx' = {}
    /\ display' = [display EXCEPT !["clr"] = "inline", !["submit"] = "inline",
                                  !["ready"] = "none", !["ready_message"] = "none"]
    /\ status' = [status EXCEPT !.yourself.submitted = FALSE,
                                !.yourself.result = FALSE,
                                !.yourself.ready = FALSE]
    /\ kana' = data.kana
    /\ sound' = data.sound
    /\ sound_num' = data.sound_num
    /\ innerHTML' = [innerHTML EXCEPT !["draw-statement"] = DrawStatement(data.sound)]
    /\ resultSeen' = [yourself |-> FALSE, other_user |-> FALSE]
    /\ emitted' = <<>>
    /\ UNCHANGED <<drawing_, prevX, currX, prevY, currY, waiting, room, own_id, loading, location>>

\* recv_challenge that leaves the 'ready' control as it is
recv_challenge_keeps_ready(data) ==
    /\ Loaded
    /\ handler' = "recv_challenge"
    /\ erase
    /\ backgroundColor' = clear_other([backgroundColor EXCEPT !["drawing_canvas"] = "white"])
    /\ other_ctx' = {}
    /\ display' = [display EXCEPT !["clr"] = "inline", !["submit"] = "inline",
                                  !["ready_message"] = "none"]
    /\ status' = [status EXCEPT !.yourself.submitted = FALSE,
                                !.yourself.result = FALSE,
                                !.yourself.ready = FALSE,
                                !.other_user.submitted = FALSE,
                                !.other_user.result = FALSE,
                                !.other_user.ready = FALSE]
    /\ kana' = data.kana
    /\ sound' = data.sound
    /\ sound_num' = data.sound_num
    /\ innerHTML' = [innerHTML EXCEPT !["draw-statement"] = DrawStatement(data.sound)]
    /\ resultSeen' = [yourself |-> FALSE, other_user |-> FALSE]
    /\ emitted' = <<>>
    /\ UNCHANGED <<drawing_, prevX, currX, prevY, currY, waiting, room, own_id, loading, location>>

\* socket.on('recv_challenge')
recv_challenge(data) ==
    /\ Loaded
    /\ handler' = "recv_challenge"
    /\ erase
    /\ backgroundColor' = clear_other([backgroundColor EXCEPT !["drawing_canvas"] = "white"])
    /\ other_ctx' = {}
    /\ display' = [display EXCEPT !["clr"] = "inline", !["submit"] = "inline",
                                  !["ready"] = "none", !["ready_message"] = "none"]
    /\ status' = [status EXCEPT !.yourself.submitted = FALSE,
                                !.yourself.result = FALSE,
                                !.yourself.ready = FALSE,
                                !.other_user.submitted = FALSE,
                                !.other_user.result = FALSE,
                                !.other_user.ready = FALSE]
    /\ kana' = data.kana
    /\ sound' = data.sound
    /\ sound_num' = data.sound_num
    /\ innerHTML' = [innerHTML EXCEPT !["draw-statement"] = DrawStatement(data.sound)]
    /\ resultSeen' = [yourself |-> FALSE, other_user |-> FALSE]
    /\ emitted' = <<>>
    /\ UNCHANGED <<drawing_, prevX, currX, prevY, currY, waiting, room, own_id, loading, location>>

\* ------------------------------------------------------------ matching game

\* found.length at which check() tears the deck down, and the number of card holders
\* its loop removes
FullDeck == 10
\* the points check() adds for a matched pair
MatchAward == 2

\* the list a character_list carries: entries (character or sound, sound), the two
\* entries of a pair share the sound. JSON decoding makes every entry an object of its
\* own; the entries are pairwise different, so the same entry is the same object.
CharacterLists ==
    {<< <<"a-kana", "a">>, <<"i", "i">>, <<"u-kana", "u">>, <<"a", "a">>, <<"e", "e">>,
        <<"o-kana", "o">>, <<"i-kana", "i">>, <<"o", "o">>, <<"e-kana", "e">>, <<"u", "u">> >>}

\* the class of the template card that character_list clones (the markup's), taken to
\* be the class a mismatch gives a card back
TemplateClass == "match_card"

\* array.indexOf(x): the first position (from 0) of x, -1 when absent
indexOf(array, x) ==
    IF \E i \in 1..Len(array) : array[i] = x
    THEN (CHOOSE i \in 1..Len(array) :
              array[i] = x /\ \A j \in 1..(i - 1) : array[j] # x) - 1
    ELSE -1

\* array.splice(index, 1): removes the entry at index; a negative index counts from
\* the end
splice(array, index) ==
    LET at == IF index < 0 THEN Len(array) + index + 1 ELSE index + 1
    IN IF at \in 1..Len(array)
       THEN [i \in 1..(Len(array) - 1) |-> IF i < at THEN array[i] ELSE array[i + 1]]
       ELSE array

\* socket.on('connect') of the matching page; the connection is made once per page load
matching_connect ==
    /\ handler = "init"
    /\ handler' = "connect"
    /\ emitted' = <<Message([EventType |-> "check_allowed"])>>
    /\ UNCHANGED matchVars

\* socket.on('allowed_check') of the matching page, the reply to check_allowed
matching_allowed_check(allowed) ==
    /\ handler = "connect"
    /\ handler' = "allowed_check"
    /\ match_overlay' = IF allowed = FALSE THEN "block" ELSE match_overlay
    /\ emitted' = IF allowed = FALSE THEN <<>>
                  ELSE <<Message([EventType |-> "match_connect"])>>
    /\ UNCHANGED <<characters, match_points, selected, not_allowed, found, cards, match_text, accepted>>

\* the points of a round in which every pair of a full deck is matched
PointsPerRound == (FullDeck \div 2) * MatchAward

\* the reply to the match_connect sent last is still outstanding
AwaitsCharacterList ==
    /\ emitted # <<>>
    /\ emitted[Len(emitted)].data.EventType = "match_connect"

\* socket.on('character_list'): one card per entry, appended to 'matching'
character_list(list) ==
    /\ AwaitsCharacterList
    /\ match_points < MaxRounds * PointsPerRound
    /\ handler' = "character_list"
    /\ characters' = list
    /\ cards' = cards \o [x \in 1..Len(list) |->
                             [id |-> x, className |-> TemplateClass, onclick |-> "this_one",
                              text |-> list[x][1]]]
    /\ emitted' = <<>>
    /\ UNCHANGED <<match_points, selected, not_allowed, found, match_text, match_overlay, accepted>>

\* document.getElementById("card_" + k): the first card with that id in document order
\* (0 when there is none)
getCard(cs, k) ==
    IF \E n \in 1..Len(cs) : cs[n].id = k
    THEN CHOOSE n \in 1..Len(cs) : cs[n].id = k /\ \A j \in 1..(n - 1) : cs[j].id # k
    ELSE 0

\* className and onclick assigned to the card "card_" + k
setCard(cs, k, className, onclick) ==
    LET at == getCard(cs, k)
    IN IF at = 0 THEN cs
       ELSE [cs EXCEPT ![at] = [@ EXCEPT !.className = className, !.onclick = onclick]]

\* document.getElementById("card_hold_" + z).remove() for z = 1 .. FullDeck
removeCards(cs) ==
    LET gone == {getCard(cs, z) : z \in 1..FullDeck}
        keep(n) == Cardinality({j \in 1..n : j \notin gone})
    IN [i \in 1..Cardinality((1..Len(cs)) \ gone) |->
            cs[CHOOSE n \in (1..Len(cs)) \ gone : keep(n) = i]]

\* the page state check() reads and writes
MatchingState ==
    [characters |-> characters, points |-> match_points, selected |-> selected,
     not_allowed |-> not_allowed, found |-> found, cards |-> cards,
     text |-> match_text, emitted |-> <<>>]

\* check(), the branch of a matching pair: both cards disabled, both entries in found,
\* the award added
check_correct_one_card(s) ==
    LET ind1 == indexOf(s.characters, s.selected[1])
    IN [s EXCEPT !.text.result = "Correct!",
                 !.found = s.found \o s.selected,
                 !.cards = setCard(s.cards, ind1 + 1, "disabled_correct", "noop"),
                 !.points = s.points + MatchAward,
                 !.text.points = "Points: " \o ToString(s.points + MatchAward)]

check_correct(s) ==
    LET ind1 == indexOf(s.characters, s.selected[1])
        ind2 == indexOf(s.characters, s.selected[2])
    IN [s EXCEPT !.text.result = "Correct!",
                 !.found = s.found \o s.selected,
                 !.cards = setCard(setCard(s.cards, ind1 + 1, "disabled_correct", "noop"),
                                   ind2 + 1, "disabled_correct", "noop"),
                 !.points = s.points + MatchAward,
                 !.text.points = "Points: " \o ToString(s.points + MatchAward)]

\* check(), the branch of a pair that does not match: both cards selectable again and
\* out of not_allowed
check_incorrect_stays_locked(s) ==
    LET ind1 == indexOf(s.characters, s.selected[1])
        ind2 == indexOf(s.characters, s.selected[2])
    IN [s EXCEPT !.text.result = "Incorrect!",
                 !.cards = setCard(setCard(s.cards, ind1 + 1, "match_card", "this_one"),
                                   ind2 + 1, "match_card", "this_one")]

check_incorrect(s) ==
    LET ind1 == indexOf(s.characters, s.selected[1])
        ind2 == indexOf(s.characters, s.selected[2])
        index1 == indexOf(s.not_allowed, s.selected[1])
        index2 == indexOf(splice(s.not_allowed, index1), s.selected[2])
    IN [s EXCEPT !.text.result = "Incorrect!",
                 !.cards = setCard(setCard(s.cards, ind1 + 1, "match_card", "this_one"),
                                   ind2 + 1, "match_card", "this_one"),
                 !.not_allowed = splice(splice(s.not_allowed, index1), index2)]

\* check()'s reset that also starts the score again
check_reset_clears_points(s) ==
    [s EXCEPT !.characters = <<>>,
              !.found = <<>>,
              !.not_allowed = <<>>,
              !.points = 0,
              !.cards = removeCards(s.cards),
              !.emitted = <<Message([EventType |-> "done_matches"]),
                            Message([EventType |-> "match_connect"])>>]

\* check(), the reset of a deck whose cards are all found
check_reset(s) ==
    [s EXCEPT !.characters = <<>>,
              !.found = <<>>,
              !.not_allowed = <<>>,
              !.cards = removeCards(s.cards),
              !.emitted = <<Message([EventType |-> "done_matches"]),
                            Message([EventType |-> "match_connect"])>>]

\* check() that leaves the compared pair selected
check_keeps_selected(s) ==
    IF Len(s.selected) # 2 THEN s
    ELSE IF s.selected[1][2] = s.selected[2][2] THEN check_correct(s) ELSE check_incorrect(s)

\* check() that resets the deck with one pair still to find
check_resets_early(s) ==
    IF Len(s.selected) # 2 THEN s
    ELSE
      LET compared == IF s.selected[1][2] = s.selected[2][2]
                      THEN check_correct(s) ELSE check_incorrect(s)
          deselected == [compared EXCEPT !.selected = <<>>]
      IN IF Len(deselected.found) = FullDeck - 2
         THEN check_reset(deselected)
         ELSE deselected

\* check(): the comparison of two selected cards, then the reset of a full deck
check(s) ==
    IF Len(s.selected) # 2 THEN s
    ELSE
      LET compared == IF s.selected[1][2] = s.selected[2][2]
                      THEN check_correct(s) ELSE check_incorrect(s)
          deselected == [compared EXCEPT !.selected = <<>>]
      IN IF Len(deselected.found) = FullDeck
         THEN check_reset(deselected)
         ELSE deselected

\* this_one(_id) without the test of not_allowed
this_one_unchecked(n) ==
    /\ n \in 1..Len(cards)
    /\ cards[n].onclick = "this_one"
    /\ cards[n].id \in 1..Len(characters)
    /\ handler' = "this_one"
    /\ LET index == cards[n].id
           this_char == characters[index]
           pushed == [MatchingState EXCEPT
                         !.selected = Append(selected, this_char),
                         !.cards = setCard(cards, index, "disabled_selected",
                                           cards[getCard(cards, index)].onclick),
                         !.not_allowed = Append(not_allowed, this_char)]
       IN \E after \in {check(pushed)} :
              /\ accepted' = (indexOf(not_allowed, this_char) = -1)
              /\ characters' = after.characters
              /\ match_points' = after.points
              /\ selected' = after.selected
              /\ not_allowed' = after.not_allowed
              /\ found' = after.found
              /\ cards' = after.cards
              /\ match_text' = after.text
              /\ emitted' = after.emitted
    /\ UNCHANGED match_overlay

\* this_one(_id), the onclick of the n-th card of the page
this_one(n) ==
    /\ n \in 1..Len(cards)
    /\ cards[n].onclick = "this_one"
    /\ cards[n].id \in 1..Len(characters)
    /\ handler' = "this_one"
    /\ LET index == cards[n].id
           this_char == characters[index]
           pushed == [MatchingState EXCEPT
                         !.selected = Append(selected, this_char),
                         !.cards = setCard(cards, index, "disabled_selected",
                                           cards[getCard(cards, index)].onclick),
                         !.not_allowed = Append(not_allowed, this_char)]
       IN \E after \in {IF indexOf(not_allowed, this_char) = -1
                        THEN check(pushed)
                        ELSE MatchingState} :
              /\ accepted' = (indexOf(not_allowed, this_char) = -1)
              /\ characters' = after.characters
              /\ match_points' = after.points
              /\ selected' = after.selected
              /\ not_allowed' = after.not_allowed
              /\ found' = after.found
              /\ cards' = after.cards
              /\ match_text' = after.text
              /\ emitted' = after.emitted
    /\ UNCHANGED match_overlay

\* the matching page: its inbound messages and the clicks on its cards
MatchingEvents ==
    \/ matching_connect /\ UNCHANGED offMatchingPage
    \/ \E allowed \in BOOLEAN : matching_allowed_check(allowed) /\ UNCHANGED offMatchingPage
    \/ \E list \in CharacterLists : character_list(list) /\ UNCHANGED offMatchingPage
    \/ \E n \in 1..FullDeck : this_one(n) /\ UNCHANGED offMatchingPage

NextMatching == MatchingEvents

SpecMatching == Init /\ [][NextMatching]_vars


\* --------------------------------------------------------------------- chat

\* the messages of the chat, tuples (text, unix time, sender): two of them were sent at
\* the same time
ChatMessages == {<<"a", 5, 1>>, <<"b", 5, 2>>, <<"c", 6, 2>>, <<"d", 7, 1>>}

\* the collections a recv_previous carries
PreviousYours == {<<>>, << <<"a", 5, 1>> >>, << <<"a", 5, 1>>, <<"d", 7, 1>> >>}
PreviousOthers == {<<>>, << <<"c", 6, 2>> >>, << <<"b", 5, 2>>, <<"c", 6, 2>> >>}

\* socket.on('connect') of the chat page
chat_connect ==
    /\ handler' = "connect"
    /\ emitted' = <<Message([EventType |-> "who_are_we"])>>
    /\ UNCHANGED chatVars

\* socket.on('you_are')
you_are(you, them, r) ==
    /\ handler' = "you_are"
    /\ chat_info' = [chat_info EXCEPT !.yours.id_ = you, !.others.id_ = them]
    /\ chat_room' = r
    /\ emitted' = << [event |-> "join", data |-> [username |-> you, room |-> r]],
                     Message([EventType |-> "get_messages", Other |-> them]) >>
    /\ UNCHANGED <<your_ind, other_ind, nodes>>

\* the object to_add that message_order fills: to_add[message[1]] = [message[0],
\* message[2]] for the messages of 'yours', then of 'others'; a later assignment to the
\* same key replaces the earlier one
to_add(yours, others) ==
    LET all == yours \o others
    IN [t \in {all[i][2] : i \in 1..Len(all)} |->
           LET last == CHOOSE i \in 1..Len(all) :
                           all[i][2] = t /\ \A j \in (i + 1)..Len(all) : all[j][2] # t
           IN <<all[last][1], all[last][3]>>]

\* for (key in object): the keys are integers (unix times), which an object enumerates
\* in ascending numeric order
forIn(object) ==
    [i \in 1..Cardinality(DOMAIN object) |->
        CHOOSE k \in DOMAIN object : Cardinality({j \in DOMAIN object : j < k}) = i - 1]

\* to_sort.length: to_sort is the object to_add, whose properties are the times of the
\* messages; it has no property 'length'. The value is the set of the numbers the
\* property holds: none, as it is undefined
lengthOf(to_sort) == {}

\* whether the loops of bubble() come to an end: the outer loop is entered when
\* 0 < length (false for undefined); once entered, the inner loop starts at y = 0 and
\* counts y down while y < length, which never becomes false
loopsEnd(length) == \A n \in length : ~(0 < n)

\* bubble() whose length is the number of properties of to_sort
bubble_counts_keys(to_sort) ==
    LET keys == forIn(to_sort)
    IN [returns |-> loopsEnd({Cardinality(DOMAIN to_sort)}),
        sorted |-> [i \in 1..Len(keys) |-> to_sort[keys[Len(keys) + 1 - i]]]]

\* bubble(to_sort): to_sort is an object, its length is undefined, so the sorting loops
\* do not run (x < undefined is false); every value is then inserted at position 0 of
\* 'sorted', which reverses the order of enumeration. The value tells whether the call
\* returns and the array it returns.
bubble(to_sort) ==
    LET keys == forIn(to_sort)
    IN [returns |-> loopsEnd(lengthOf(to_sort)),
        sorted |-> [i \in 1..Len(keys) |-> to_sort[keys[Len(keys) + 1 - i]]]]

\* the nodes without the first node of each of the ids
removeById(ns, ids) ==
    LET first(id) == IF \E n \in 1..Len(ns) : ns[n].id = id
                     THEN CHOOSE n \in 1..Len(ns) :
                              ns[n].id = id /\ \A j \in 1..(n - 1) : ns[j].id # id
                     ELSE 0
        gone == {first(id) : id \in ids}
        left == {n \in 1..Len(ns) : n \notin gone}
    IN [i \in 1..Cardinality(left) |->
           ns[CHOOSE n \in left : Cardinality({j \in left : j <= n}) = i]]

\* the page state message_order() reads and writes
ChatState(inf) ==
    [info |-> inf, your_ind |-> your_ind, other_ind |-> other_ind, nodes |-> nodes,
     returned |-> TRUE]

\* display_messages that puts an entry on the side of the collection that holds it
display_messages_by_collection(message_list, s) ==
    LET yours(i) == \E j \in 1..Len(s.info.yours.messages) :
                        s.info.yours.messages[j][1] = message_list[i][1]
        count(i) == Cardinality({j \in 1..i : yours(j) = yours(i)})
        clone(i) == IF yours(i)
                    THEN [id |-> <<"your_message", s.your_ind + count(i)>>,
                          text |-> message_list[i][1]]
                    ELSE [id |-> <<"other_message", s.other_ind + count(i)>>,
                          text |-> message_list[i][1]]
        mine == Cardinality({i \in 1..Len(message_list) : yours(i)})
    IN [s EXCEPT !.your_ind = s.your_ind + mine,
                 !.other_ind = s.other_ind + (Len(message_list) - mine),
                 !.nodes = s.nodes \o [i \in 1..Len(message_list) |-> clone(i)]]

\* display_messages(message_list): one node per entry [text, sender], appended in list
\* order on the side of its sender, numbered by the counter of that side
display_messages(message_list, s) ==
    LET yours(i) == message_list[i][2] = s.info.yours.id_
        count(i) == Cardinality({j \in 1..i : yours(j) = yours(i)})
        clone(i) == IF yours(i)
                    THEN [id |-> <<"your_message", s.your_ind + count(i)>>,
                          text |-> message_list[i][1]]
                    ELSE [id |-> <<"other_message", s.other_ind + count(i)>>,
                          text |-> message_list[i][1]]
        mine == Cardinality({i \in 1..Len(message_list) : yours(i)})
    IN [s EXCEPT !.your_ind = s.your_ind + mine,
                 !.other_ind = s.other_ind + (Len(message_list) - mine),
                 !.nodes = s.nodes \o [i \in 1..Len(message_list) |-> clone(i)]]

\* message_order() that leaves the nodes of the previous rendering on the page
message_order_keeps_nodes(s) ==
    LET cleared == [s EXCEPT !.your_ind = 0, !.other_ind = 0]
        call == bubble(to_add(s.info.yours.messages, s.info.others.messages))
        sorted_add == call.sorted
        message_order_list == [item \in 1..Len(sorted_add) |-> sorted_add[item]]
    IN IF ~call.returns
       THEN [cleared EXCEPT !.returned = FALSE]
       ELSE display_messages(message_order_list, cleared)

\* message_order(): removes the nodes of the previous rendering, merges the two
\* collections by time and displays them
message_order(s) ==
    LET cleared ==
            [s EXCEPT !.nodes = removeById(s.nodes,
                                    {<<"your_message", z>> : z \in 1..s.your_ind}
                                    \cup {<<"other_message", z>> : z \in 1..s.other_ind}),
                      !.your_ind = 0,
                      !.other_ind = 0]
        call == bubble(to_add(s.info.yours.messages, s.info.others.messages))
        sorted_add == call.sorted
        message_order_list == [item \in 1..Len(sorted_add) |-> sorted_add[item]]
    IN IF ~call.returns
       THEN [cleared EXCEPT !.returned = FALSE]
       ELSE display_messages(message_order_list, cleared)

\* the page after the handler named has run message_order() on the collections inf; a
\* handler whose call never returns leaves the page hung
Rendered(inf, name) ==
    \E after \in {message_order(ChatState(inf))} :
        /\ handler' = IF after.returned THEN name ELSE "hung"
        /\ chat_info' = after.info
        /\ your_ind' = after.your_ind
        /\ other_ind' = after.other_ind
        /\ nodes' = after.nodes

\* socket.on('recv_previous')
recv_previous(yours, others) ==
    /\ Rendered([chat_info EXCEPT !.yours.messages = yours, !.others.messages = others],
                "recv_previous")
    /\ emitted' = <<>>
    /\ UNCHANGED chat_room

\* socket.on('new_message'): message[1], which it compares with the own id, is the time
new_message(message) ==
    /\ Rendered(IF message[2] = chat_info.yours.id_
                THEN [chat_info EXCEPT !.yours.messages = Append(@, message)]
                ELSE [chat_info EXCEPT !.others.messages = Append(@, message)],
                "new_message")
    /\ emitted' = <<>>
    /\ UNCHANGED chat_room

\* the send button: send_message()
send_message(mess) ==
    /\ handler' = "send_message"
    /\ emitted' = <<Message([EventType |-> "send_message", mess |-> mess,
                             MessageTo |-> chat_info.others.id_,
                             MessageFrom |-> chat_info.yours.id_])>>
    /\ UNCHANGED chatVars

\* the page runs handlers one at a time: while one has not returned no other starts
Responsive == handler # "hung"

\* the chat page: its inbound messages and the send button
ChatEvents ==
    \/ Responsive /\ chat_connect /\ UNCHANGED offChatPage
    \/ \E you \in OwnIds, them \in PeerIds, r \in Rooms :
          Responsive /\ you_are(you, them, r) /\ UNCHANGED offChatPage
    \/ \E yours \in PreviousYours, others \in PreviousOthers :
          Responsive /\ recv_previous(yours, others) /\ UNCHANGED offChatPage
    \/ \E message \in ChatMessages :
          /\ Responsive
          /\ Len(chat_info.yours.messages) + Len(chat_info.others.messages) < MaxMessages
          /\ new_message(message) /\ UNCHANGED offChatPage
    \/ \E mess \in {"e"} : Responsive /\ send_message(mess) /\ UNCHANGED offChatPage

NextChat == ChatEvents

SpecChat == Init /\ [][NextChat]_vars


\* --------------------------------------------------------------- dictionary

\* the entries a search can find
Entries == {[PrimaryReading |-> "neko", Readings |-> <<"byou">>, Meanings |-> <<"cat">>],
            [PrimaryReading |-> "inu", Readings |-> <<>>, Meanings |-> <<"dog", "hound">>],
            [PrimaryReading |-> "tori", Readings |-> <<"chou">>, Meanings |-> <<>>]}

\* sequences of at most n elements of S
SeqUpTo(S, n) == UNION {[1..k -> S] : k \in 0..n}

\* the box dictionary_results appends for the x-th entry: the clone "search_result_" + x
\* with the primary reading, then the other readings and the meanings appended to it
resultBox(x, entry) ==
    [id |-> x,
     primary |-> entry.PrimaryReading,
     appended |-> <<"Other Readings:">> \o entry.Readings \o <<"Meanings:">> \o entry.Meanings]

\* the boxes without the first one with id z, for each z of 1 .. upto (the loop calls
\* getElementById("search_result_" + z).remove())
removeResults(boxes, upto) ==
    LET first(z) == IF \E n \in 1..Len(boxes) : boxes[n].id = z
                    THEN CHOOSE n \in 1..Len(boxes) :
                             boxes[n].id = z /\ \A j \in 1..(n - 1) : boxes[j].id # z
                    ELSE 0
        gone == {first(z) : z \in 1..upto}
        left == {n \in 1..Len(boxes) : n \notin gone}
    IN [i \in 1..Cardinality(left) |->
           boxes[CHOOSE n \in left : Cardinality({j \in left : j <= n}) = i]]

\* dictionary_results that leaves the boxes of the previous search on the page
dictionary_results_keeps_boxes(results) ==
    /\ handler' = "dictionary_results"
    /\ search_results' = search_results
                            \o [x \in 1..Len(results) |-> resultBox(x, results[x])]
    /\ current_index' = Len(results)
    /\ emitted' = <<>>

\* socket.on('dictionary_results')
dictionary_results(results) ==
    /\ handler' = "dictionary_results"
    /\ search_results' = removeResults(search_results, current_index)
                            \o [x \in 1..Len(results) |-> resultBox(x, results[x])]
    /\ current_index' = IF results = <<>> THEN 0 ELSE Len(results)
    /\ emitted' = <<>>

\* the search button: find_word()
find_word(word) ==
    /\ handler' = "find_word"
    /\ emitted' = <<Message([EventType |-> "search_dictionary", search_term |-> word])>>
    /\ UNCHANGED dictionaryVars

\* the dictionary page: its inbound message and its button
DictionaryEvents ==
    \/ \E results \in SeqUpTo(Entries, MaxResults) :
          dictionary_results(results) /\ UNCHANGED offDictionaryPage
    \/ \E word \in {"neko", "dog"} : find_word(word) /\ UNCHANGED offDictionaryPage

NextDictionary == DictionaryEvents

SpecDictionary == Init /\ [][NextDictionary]_vars

\* ----------------------------------------------------------------- homepage

\* the (Username, totalPoints) tuples a leaderboard message can carry
Leaders == {<<"ann", 30>>, <<"bob", 20>>}

\* the rows the loop of 'leaderboard' inserts for a payload: rank, username, points
leaderRows(users) == [x \in 1..Len(users) |-> <<x, users[x][1], users[x][2]>>]

\* socket.on('connect') of the homepage; it runs again on every reconnection
home_connect ==
    /\ handler' = "connect"
    /\ emitted' = <<Message([EventType |-> "get_leaders"])>>
    /\ UNCHANGED homeVars

\* socket.on('leaderboard'): insertRow() appends each row at the end of the table
leaderboard(users) ==
    /\ Len(leaderboard_table) + Len(users) <= MaxRows
    /\ handler' = "leaderboard"
    /\ leaderboard_table' = leaderboard_table \o leaderRows(users)
    /\ emitted' = <<>>

HomeEvents ==
    \/ home_connect /\ UNCHANGED offHomePage
    \/ \E users \in SeqUpTo(Leaders, MaxLeaders) : leaderboard(users) /\ UNCHANGED offHomePage

NextHome == HomeEvents

SpecHome == Init /\ [][NextHome]_vars

\* -------------------------------------------------------------------- forms

\* the error strings the server reports, and what the user typed into the fields
ErrorStrings == {"Username is taken", "Password too short"}
Typed == {"ann"}

\* a text node, and the line break element
TextNode(string) == [tag |-> "#text", data |-> string]
BR == [tag |-> "br", data |-> ""]

\* reading innerHTML: the markup of the child nodes, a line break read back as "<br>"
serialise(children) ==
    [n \in 1..Len(children) |->
        IF children[n].tag = "br" THEN "<br>" ELSE children[n].data]

\* assigning innerHTML: the markup parsed into child nodes
parse(markup) ==
    [n \in 1..Len(markup) |->
        IF markup[n] \in {"<br>", "<br/>"} THEN BR ELSE TextNode(markup[n])]

\* the loop  innerHTML += errors[error] + br  run over the list
appendErrors(children, list, br) ==
    LET RECURSIVE loop(_, _)
        loop(shown, error) ==
            IF error > Len(list) THEN shown
            ELSE loop(parse(serialise(shown) \o <<list[error], br>>), error + 1)
    IN loop(children, 1)

\* the handler body without its first statement: the earlier errors stay on the page
show_errors_appends(page, list, br) ==
    errors' = [errors EXCEPT ![page] = appendErrors(errors[page], list, br)]

\* the body shared by the four handlers: innerHTML = "", then the loop
show_errors(page, list, br) ==
    errors' = [errors EXCEPT ![page] = appendErrors(parse(<<>>), list, br)]

\* socket.on('login_error')
login_error(list) ==
    /\ handler' = "login_error"
    /\ show_errors("forms", list, "<br>")
    /\ emitted' = <<>>
    /\ UNCHANGED forgot_stuff

\* socket.on('signup_errors')
signup_errors(list) ==
    /\ handler' = "signup_errors"
    /\ show_errors("forms", list, "<br>")
    /\ emitted' = <<>>
    /\ UNCHANGED forgot_stuff

\* socket.on('change_errors') of the profile pages
change_errors(list) ==
    /\ handler' = "change_errors"
    /\ show_errors("profile", list, "<br/>")
    /\ emitted' = <<>>
    /\ UNCHANGED forgot_stuff

\* socket.on('password_errors') of the profile pages
password_errors(list) ==
    /\ handler' = "password_errors"
    /\ show_errors("profile", list, "<br/>")
    /\ emitted' = <<>>
    /\ UNCHANGED forgot_stuff

\* the login button
login(user, passwd) ==
    /\ handler' = "login"
    /\ emitted' = <<Message([EventType |-> "login_data", username |-> user, password |-> passwd])>>
    /\ UNCHANGED formVars

\* the signup button
signup(username, email, password, c_password) ==
    /\ handler' = "signup"
    /\ emitted' = <<Message([EventType |-> "sign_up_data", username |-> username, email |-> email,
                             password |-> password, c_password |-> c_password])>>
    /\ UNCHANGED formVars

\* the 'forgot password' button
forgot(username) ==
    /\ handler' = "forgot"
    /\ forgot_stuff' = "block"
    /\ emitted' = <<Message([EventType |-> "forgot_password", username |-> username])>>
    /\ UNCHANGED errors

\* the 'login with pin' button
login_pin(username, entered_pin) ==
    /\ handler' = "login_pin"
    /\ emitted' = <<Message([EventType |-> "login_otp", username |-> username, otp |-> entered_pin])>>
    /\ UNCHANGED formVars

ErrorLists == SeqUpTo(ErrorStrings, MaxErrors)

FormEvents ==
    \/ \E list \in ErrorLists : login_error(list) /\ UNCHANGED offFormPages
    \/ \E list \in ErrorLists : signup_errors(list) /\ UNCHANGED offFormPages
    \/ \E list \in ErrorLists : change_errors(list) /\ UNCHANGED offFormPages
    \/ \E list \in ErrorLists : password_errors(list) /\ UNCHANGED offFormPages
    \/ \E user \in Typed, passwd \in Typed : login(user, passwd) /\ UNCHANGED offFormPages
    \/ \E username \in Typed, email \in Typed, password \in Typed, c_password \in Typed :
          signup(username, email, password, c_password) /\ UNCHANGED offFormPages
    \/ \E username \in Typed : forgot(username) /\ UNCHANGED offFormPages
    \/ \E username \in Typed, entered_pin \in Typed :
          login_pin(username, entered_pin) /\ UNCHANGED offFormPages

NextForms == FormEvents

SpecForms == Init /\ [][NextForms]_vars

\* ------------------------------------------------------------------ profile

\* the profile pages and the elements each one holds among those the handlers look up
ProfilePages == {"progress", "friends", "settings", "change-password", "other-profile"}
present(page) ==
    CASE page = "progress" -> {Holders[n] : n \in 1..5} \cup {"awards_holder"}
      [] page = "friends" -> {"request_friend_element", "request_friends_list", "friend_element",
                              "friends_list", "request_results", "request_results_list"}
      [] page = "settings" -> {SettingFields[n] : n \in 1..5}
      [] page = "other-profile" -> {"points_holder", "streak_holder", "character_holder",
                                    "friend_element", "friends_list"}
      [] OTHER -> {}

\* the (UserID, Username) tuples of the lists of user_data and found_users
People == {<<2, "bob">>}
PeopleLists == SeqUpTo(People, 1)

\* the payloads of user_data; lists is FALSE when 'friend_requests' and 'friends' are absent
UserData ==
    [points : {"10"}, streak : {"2"}, characters : {"5"}, questions : {"7"},
     next_steps : {"Level 2"}, awards : SeqUpTo({"First level"}, 1), lists : BOOLEAN,
     friend_requests : PeopleLists, friends : PeopleLists]

\* the payloads of current_settings
Settings ==
    [username : {"ann"}, email : {"ann@mail"}, info : BOOLEAN, remind : BOOLEAN, promo : {FALSE}]

\* socket.on('connect') of the profile pages, when the page is loaded and on reconnection
profile_connect(page) ==
    /\ profile_href \in {"none", page}
    /\ profile_href' = page
    /\ handler' = "connect"
    /\ escaped' = FALSE
    /\ emitted' =
          CASE page = "other-profile" ->
                   <<Message([EventType |-> "get_profile_data", OtherUsername |-> "bob"])>>
            [] page = "change-password" -> <<Message([EventType |-> "check_pword_change"])>>
            [] OTHER -> <<Message([EventType |-> "get_settings"]),
                          Message([EventType |-> "get_profile_data"])>>
    /\ UNCHANGED <<fields, awards_holder, request_friends_list, friends_list, request_results_list>>

\* assignments  getElementById(id).<property> = value  run in order: the state of the fields
\* after them, and whether one of them threw because its element is absent (the later
\* ones then do not run)
assignments(steps, s) ==
    LET absent == {n \in 1..Len(steps) : steps[n][1] \notin present(profile_href)}
        ran == IF absent = {} THEN Len(steps)
               ELSE (CHOOSE n \in absent : \A k \in absent : n <= k) - 1
    IN [s EXCEPT !.fields = [id \in FieldIds |->
                                IF \E n \in 1..ran : steps[n][1] = id
                                THEN steps[CHOOSE n \in 1..ran : steps[n][1] = id][2]
                                ELSE s.fields[id]],
                 !.thrown = absent # {}]

\* catch(err) {} : the error of the block ends there
catch(s) == [s EXCEPT !.thrown = FALSE]

\* the clones a loop appends for a list of people, numbered from 'first'
clones(people, first) ==
    [n \in 1..Len(people) |->
        [id |-> first + n - 1, text |-> people[n][2], user |-> people[n][1], value |-> "Request"]]

\* a loop that clones 'template' for each of the people and appends the clone to 'list'
appendClones(s, people, template, list, first) ==
    IF people = <<>> THEN s
    ELSE IF {template, list} \subseteq present(profile_href)
         THEN [s EXCEPT ![list] = s[list] \o clones(people, first)]
         ELSE [s EXCEPT !.thrown = TRUE]

\* the progress-page block of user_data
progress_block(data, s) ==
    LET held == assignments(<<<<"points_holder", data.points>>, <<"streak_holder", data.streak>>,
                              <<"character_holder", data.characters>>,
                              <<"total_holder", data.questions>>,
                              <<"next_steps_holder", data.next_steps>>>>, s)
    IN IF held.thrown \/ data.awards = <<>> THEN held
       ELSE IF "awards_holder" \in present(profile_href)
            THEN [held EXCEPT !.awards_holder = appendErrors(s.awards_holder, data.awards, "<br>")]
            ELSE [held EXCEPT !.thrown = TRUE]

\* the friends-page block of user_data
friends_block(data, s) ==
    IF ~data.lists THEN [s EXCEPT !.thrown = TRUE]
    ELSE LET requested == appendClones(s, data.friend_requests, "request_friend_element",
                                       "request_friends_list", 1)
         IN IF requested.thrown THEN requested
            ELSE appendClones(requested, data.friends, "friend_element", "friends_list", 0)

\* what a handler of the profile pages works on
ProfileState ==
    [fields |-> fields, awards_holder |-> awards_holder,
     request_friends_list |-> request_friends_list, friends_list |-> friends_list,
     request_results_list |-> request_results_list, thrown |-> FALSE]

\* the state a handler leaves
Leaves(s, name) ==
    /\ handler' = name
    /\ fields' = s.fields
    /\ awards_holder' = s.awards_holder
    /\ request_friends_list' = s.request_friends_list
    /\ friends_list' = s.friends_list
    /\ request_results_list' = s.request_results_list
    /\ escaped' = s.thrown
    /\ emitted' = <<>>
    /\ UNCHANGED profile_href

\* the lists and the awards stay within the bound
Fits(data) ==
    /\ Len(awards_holder) + 2 * Len(data.awards) <= 2 * MaxClones
    /\ Len(request_friends_list) + Len(data.friend_requests) <= MaxClones
    /\ Len(friends_list) + Len(data.friends) <= MaxClones

\* user_data whose progress-page block is not inside a try statement
user_data_progress_uncaught(data) ==
    /\ profile_href # "none"
    /\ Fits(data)
    /\ LET progress == progress_block(data, ProfileState)
       IN Leaves(IF progress.thrown THEN progress ELSE catch(friends_block(data, progress)),
                 "user_data")

\* socket.on('user_data')
user_data(data) ==
    /\ profile_href # "none"
    /\ Fits(data)
    /\ LET progress == catch(progress_block(data, ProfileState))
       IN Leaves(IF progress.thrown THEN progress ELSE catch(friends_block(data, progress)),
                 "user_data")

\* socket.on('current_settings')
current_settings(data) ==
    /\ profile_href # "none"
    /\ Leaves(catch(assignments(
                  <<<<"username", data.username>>, <<"email", data.email>>>>
                      \o (IF data.info THEN <<<<"info-choice", "checked">>>> ELSE <<>>)
                      \o (IF data.remind THEN <<<<"reminder-choice", "checked">>>> ELSE <<>>)
                      \o (IF data.promo THEN <<<<"promo-choice", "checked">>>> ELSE <<>>),
                  ProfileState)),
              "current_settings")

\* socket.on('found_users'): no try statement
found_users(users) ==
    /\ profile_href # "none"
    /\ Len(request_results_list) + Len(users) <= MaxClones
    /\ Leaves(appendClones(ProfileState, users, "request_results", "request_results_list", 0),
              "found_users")

\* the 'search for a user' button of the friends page
make_request(name) ==
    /\ profile_href = "friends"
    /\ handler' = "make_request"
    /\ escaped' = FALSE
    /\ emitted' = <<Message([EventType |-> "look_for", name |-> name])>>
    /\ UNCHANGED <<profile_href, fields, awards_holder, request_friends_list, friends_list,
                   request_results_list>>

\* the 'request' button of the n-th search result; getElementById finds the first button
\* with the id "final_req_" + UserID
final_request(n) ==
    /\ n \in 1..Len(request_results_list)
    /\ handler' = "final_request"
    /\ escaped' = FALSE
    /\ emitted' = <<Message([EventType |-> "request_user", UserID |-> request_results_list[n].user])>>
    /\ LET first == CHOOSE k \in 1..n :
                        /\ request_results_list[k].user = request_results_list[n].user
                        /\ \A j \in 1..(k - 1) :
                               request_results_list[j].user # request_results_list[n].user
       IN request_results_list' = [request_results_list EXCEPT ![first].value = "Requested"]
    /\ UNCHANGED <<profile_href, fields, awards_holder, request_friends_list, friends_list>>

\* the 'accept' and 'reject' buttons of the n-th friend request
accept_user(n) ==
    /\ n \in 1..Len(request_friends_list)
    /\ handler' = "accept_user"
    /\ escaped' = FALSE
    /\ emitted' = <<Message([EventType |-> "accept", UserID |-> request_friends_list[n].user])>>
    /\ UNCHANGED <<profile_href, fields, awards_holder, request_friends_list, friends_list,
                   request_results_list>>

reject_user(n) ==
    /\ n \in 1..Len(request_friends_list)
    /\ handler' = "reject_user"
    /\ escaped' = FALSE
    /\ emitted' = <<Message([EventType |-> "reject", UserID |-> request_friends_list[n].user])>>
    /\ UNCHANGED <<profile_href, fields, awards_holder, request_friends_list, friends_list,
                   request_results_list>>

\* the 'go to profile' button of the n-th friend
view_user(n) ==
    /\ n \in 1..Len(friends_list)
    /\ handler' = "view_user"
    /\ escaped' = FALSE
    /\ emitted' = <<Message([EventType |-> "view_other_profile",
                             OtherUsername |-> friends_list[n].text])>>
    /\ UNCHANGED <<profile_href, fields, awards_holder, request_friends_list, friends_list,
                   request_results_list>>

ProfileEvents ==
    \/ \E page \in ProfilePages : profile_connect(page) /\ UNCHANGED offProfilePages
    \/ \E data \in UserData : user_data(data) /\ UNCHANGED offProfilePages
    \/ \E data \in Settings : current_settings(data) /\ UNCHANGED offProfilePages
    \/ \E users \in PeopleLists : found_users(users) /\ UNCHANGED offProfilePages
    \/ \E name \in Typed : make_request(name) /\ UNCHANGED offProfilePages
    \/ \E n \in 1..MaxClones : final_request(n) /\ UNCHANGED offProfilePages
    \/ \E n \in 1..MaxClones : accept_user(n) /\ UNCHANGED offProfilePages
    \/ \E n \in 1..MaxClones : reject_user(n) /\ UNCHANGED offProfilePages
    \/ \E n \in 1..MaxClones : view_user(n) /\ UNCHANGED offProfilePages

NextProfile == ProfileEvents

SpecProfile == Init /\ [][NextProfile]_vars

\* --------------------------------------------------- single player drawing

\* the payloads of result_single
SingleResults ==
    [result : BOOLEAN, points : Awards, char_animation : {"/static/wa.gif"},
     incorrect_strokes : {"2"}, mistaken_for : {"re"}]

\* socket.on('connect')
single_connect ==
    /\ handler' = "connect"
    /\ emitted' = <<Message([EventType |-> "check_allowed"]),
                    Message([EventType |-> "request_info"])>>
    /\ UNCHANGED <<drawVars, own_id, kana, sound, sound_num, singleVars>>

\* socket.on('allowed_check')
single_allowed_check(allowed) ==
    /\ handler' = "allowed_check"
    /\ single_display' = IF allowed = FALSE
                         THEN [single_display EXCEPT !["not_allowed"] = "block"]
                         ELSE single_display
    /\ emitted' = <<>>
    /\ UNCHANGED <<drawVars, own_id, kana, sound, sound_num>>
    /\ UNCHANGED <<delivered_id, single_points, canvas_colour, single_text, info_panel>>

\* socket.on('info'): the UserID goes to a variable local to the handler
single_info(uid) ==
    /\ handler' = "info"
    /\ delivered_id' = uid
    /\ emitted' = <<Message([EventType |-> "ask_for_challenge"])>>
    /\ UNCHANGED <<drawVars, own_id, kana, sound, sound_num>>
    /\ UNCHANGED <<single_points, single_display, canvas_colour, single_text, info_panel>>

\* socket.on('recv_challenge')
single_recv_challenge(data) ==
    /\ handler' = "recv_challenge"
    /\ kana' = data.kana
    /\ sound' = data.sound
    /\ sound_num' = data.sound_num
    /\ single_text' = [single_text EXCEPT !.draw_message = "Draw the character for: " \o data.sound]
    /\ single_display' = [single_display EXCEPT !["clr"] = "block", !["submit"] = "block",
                                                !["continue"] = "none"]
    /\ emitted' = <<>>
    /\ UNCHANGED <<drawVars, own_id>>
    /\ UNCHANGED <<delivered_id, single_points, canvas_colour, info_panel>>

\* result_single that adds the points of every result
result_single_always_adds(data) ==
    /\ handler' = "result_single"
    /\ single_points' = single_points + data.points
    /\ single_text' = [single_text EXCEPT !.points = ToString(single_points') \o " POINTS"]
    /\ canvas_colour' = "#67e088"
    /\ UNCHANGED info_panel
    /\ single_display' = [single_display EXCEPT !["continue"] = "block"]
    /\ emitted' = <<>>
    /\ UNCHANGED <<drawVars, own_id, kana, sound, sound_num, delivered_id>>

\* socket.on('result_single')
result_single(data) ==
    /\ handler' = "result_single"
    /\ IF data.result = FALSE
       THEN /\ canvas_colour' = "#ff0000"
            /\ info_panel' =
                   [src |-> data.char_animation,
                    strokes |-> "You got stroke " \o data.incorrect_strokes \o " incorrect.",
                    mistaken_for |-> "The neural network thought your drawing looked most like: "
                                         \o data.mistaken_for]
            /\ single_display' = [single_display EXCEPT !["incorrect_drawing"] = "block",
                                                        !["continue"] = "block"]
            /\ UNCHANGED <<single_points, single_text>>
       ELSE /\ single_points' = single_points + data.points
            /\ single_text' = [single_text EXCEPT !.points = ToString(single_points') \o " POINTS"]
            /\ canvas_colour' = "#67e088"
            /\ single_display' = [single_display EXCEPT !["continue"] = "block"]
            /\ UNCHANGED info_panel
    /\ emitted' = <<>>
    /\ UNCHANGED <<drawVars, own_id, kana, sound, sound_num, delivered_id>>

\* the 'clear' button: erase()
single_erase ==
    /\ handler' = "erase"
    /\ erase
    /\ emitted' = <<>>
    /\ UNCHANGED <<drawing_, prevX, currX, prevY, currY, own_id, kana, sound, sound_num, singleVars>>

\* the 'submit' button: save()
single_save ==
    /\ handler' = "save"
    /\ single_display' = [single_display EXCEPT !["clr"] = "none", !["submit"] = "none"]
    /\ emitted' = <<Message([UserID |-> own_id, EventType |-> "image_submit_single",
                             image_data |-> JSONstringify(snapshots),
                             sound_num |-> sound_num, sound |-> sound])>>
    /\ UNCHANGED <<drawVars, own_id, kana, sound, sound_num>>
    /\ UNCHANGED <<delivered_id, single_points, canvas_colour, single_text, info_panel>>

\* the 'continue' button: next()
next ==
    /\ handler' = "next"
    /\ canvas_colour' = "white"
    /\ emitted' = <<Message([EventType |-> "ask_for_challenge"])>>
    /\ single_display' = [single_display EXCEPT !["continue"] = "none",
                                                !["incorrect_drawing"] = "none"]
    /\ erase
    /\ UNCHANGED <<drawing_, prevX, currX, prevY, currY, own_id, kana, sound, sound_num>>
    /\ UNCHANGED <<delivered_id, single_points, single_text, info_panel>>

\* findcoords(event_type, event) of drawing_single.js
single_findcoords(event_type, event) ==
    /\ handler' = "findcoords"
    /\ event_type \in {"down", "up", "out", "move"}
    /\ strokeNum' = IF event_type = "down" THEN strokeNum + 1 ELSE strokeNum
    /\ IF event_type = "down" \/ (event_type = "move" /\ drawing_)
       THEN /\ prevX' = currX
            /\ prevY' = currY
            /\ currX' = event[1]
            /\ currY' = event[2]
       ELSE UNCHANGED <<prevX, prevY, currX, currY>>
    /\ drawing_' = CASE event_type = "down" -> TRUE
                     [] event_type \in {"up", "out"} -> FALSE
                     [] OTHER -> drawing_
    /\ snapshots' = IF event_type = "up"
                    THEN ObjSet(snapshots, "Stroke" \o ToString(strokeNum), toDataURL(ctx))
                    ELSE snapshots
    /\ ctx' = IF event_type = "move" /\ drawing_
              THEN draw(ctx, currX, currY, event[1], event[2])
              ELSE ctx
    /\ downPending' = CASE event_type = "down" -> TRUE
                        [] event_type = "up" -> FALSE
                        [] OTHER -> downPending
    /\ cycles' = IF event_type = "up" /\ downPending THEN cycles + 1 ELSE cycles
    /\ strayUp' = (strayUp \/ (event_type = "up" /\ ~downPending))
    /\ emitted' = <<>>
    /\ UNCHANGED <<own_id, kana, sound, sound_num, singleVars>>

\* the single player page: its messages and its buttons, with a score of at most MaxScore
SingleEvents ==
    \/ single_connect /\ UNCHANGED offSinglePage
    \/ \E allowed \in BOOLEAN : single_allowed_check(allowed) /\ UNCHANGED offSinglePage
    \/ \E uid \in OwnIds : single_info(uid) /\ UNCHANGED offSinglePage
    \/ \E data \in Challenges : single_recv_challenge(data) /\ UNCHANGED offSinglePage
    \/ \E data \in SingleResults :
          /\ data.result => single_points + data.points <= MaxScore
          /\ result_single(data)
          /\ UNCHANGED offSinglePage
    \/ single_save /\ UNCHANGED offSinglePage
    \/ next /\ UNCHANGED offSinglePage

NextSingle == SingleEvents

SpecSingle == Init /\ [][NextSingle]_vars

\* the drawing of the single player page: the pointer events of its canvas, with at most
\* MaxStrokes pointer-downs between two resets, and the handlers that read or reset the
\* drawing
NextSingleStroke ==
    \/ \E p \in Pos : strokeNum < MaxStrokes /\ single_findcoords("down", p)
                          /\ UNCHANGED offSinglePage
    \/ \E p \in Pos : single_findcoords("move", p) /\ UNCHANGED offSinglePage
    \/ \E p \in Pos : single_findcoords("up", p) /\ UNCHANGED offSinglePage
    \/ \E p \in Pos : single_findcoords("out", p) /\ UNCHANGED offSinglePage
    \/ single_erase /\ UNCHANGED offSinglePage
    \/ \E data \in Challenges : single_recv_challenge(data) /\ UNCHANGED offSinglePage
    \/ single_save /\ UNCHANGED offSinglePage
    \/ next /\ UNCHANGED offSinglePage

SpecSingleStroke == Init /\ [][NextSingleStroke]_vars

\* ------------------------------------------- two clients of one room: ready

\* 'info' and 'other_connection' at client c: its own identity, its peer's, the room
pair_joined(c) ==
    /\ peers[c].user_id = 0
    /\ handler' = "other_connection"
    /\ peers' = [peers EXCEPT ![c].user_id = c, ![c].other_id = Peer(c), ![c].room = 1]
    /\ emitted' = <<>>
    /\ UNCHANGED <<in_flight, user_readys>>

\* the server relays the user_ready of client c to its peer as other_ready
relayed(flight, c) == [flight EXCEPT ![Peer(c)] = @ + 1]

\* the user_ready message ready() builds at client c
UserReady(c, both) ==
    [EventType |-> "user_ready", UserID |-> peers[c].user_id, OtherID |-> peers[c].other_id,
     both |-> both, room |-> peers[c].room]

\* the 'ready' button of client c: ready()
pair_ready(c) ==
    /\ peers[c].user_id # 0
    /\ Len(user_readys) < MaxReadys
    /\ handler' = "ready"
    /\ peers' = [peers EXCEPT ![c].ready = TRUE]
    /\ emitted' = <<Message(UserReady(c, peers[c].other_ready = TRUE))>>
    /\ user_readys' = Append(user_readys, UserReady(c, peers[c].other_ready = TRUE))
    /\ in_flight' = relayed(in_flight, c)

\* socket.on('other_ready') at client c, for the oldest message in flight to it
pair_other_ready(c) ==
    /\ in_flight[c] > 0
    /\ handler' = "other_ready"
    /\ in_flight' = [in_flight EXCEPT ![c] = @ - 1]
    /\ peers' = IF peers[Peer(c)].user_id = peers[c].other_id
                THEN [peers EXCEPT ![c].other_ready = TRUE]
                ELSE peers
    /\ emitted' = <<>>
    /\ UNCHANGED user_readys

PairEvents ==
    \/ \E c \in Clients : pair_joined(c) /\ UNCHANGED offPair
    \/ \E c \in Clients : pair_ready(c) /\ UNCHANGED offPair
    \/ \E c \in Clients : pair_other_ready(c) /\ UNCHANGED offPair

NextPair == PairEvents

SpecPair == Init /\ [][NextPair]_vars

\* ---------------------------------------------------------- specifications

\* a result_img whose points would pass the cap is not delivered
PointsFit(uid, result, points) ==
    result => status[ResultOf(uid)].points + points <= MaxPoints

\* the inbound messages of a session and the buttons below the canvases
SessionEvents ==
    \/ connect /\ UNCHANGED offGamePage
    \/ \E url \in Urls : move_user(url) /\ UNCHANGED offGamePage
    \/ \E allowed \in BOOLEAN : allowed_check(allowed) /\ UNCHANGED offGamePage
    \/ \E r \in Rooms, uid \in OwnIds : info(r, uid) /\ UNCHANGED offGamePage
    \/ \E image \in Images : recv_img(image) /\ UNCHANGED offGamePage
    \/ \E image \in Images : onload(image) /\ UNCHANGED offGamePage
    \/ \E uid \in PeerIds : other_connection(Username(uid), uid) /\ UNCHANGED offGamePage
    \/ wait /\ UNCHANGED offGamePage
    \/ \E uid \in UserIds, result \in BOOLEAN, points \in Awards :
          PointsFit(uid, result, points) /\ result_img(uid, result, points) /\ UNCHANGED offGamePage
    \/ \E uid \in UserIds : other_ready(uid) /\ UNCHANGED offGamePage
    \/ \E data \in Challenges : recv_challenge(data) /\ UNCHANGED offGamePage
    \/ save /\ UNCHANGED offGamePage
    \/ ready /\ UNCHANGED offGamePage
    \/ leave_game /\ UNCHANGED offGamePage

\* the pointer events of drawing_canvas, with at most MaxStrokes pointer-downs
\* between two resets
PointerEvents ==
    \/ \E p \in Pos : strokeNum < MaxStrokes /\ findcoords("down", p) /\ UNCHANGED offGamePage
    \/ \E p \in Pos : findcoords("move", p) /\ UNCHANGED offGamePage
    \/ \E p \in Pos : findcoords("up", p) /\ UNCHANGED offGamePage
    \/ \E p \in Pos : findcoords("out", p) /\ UNCHANGED offGamePage

\* the session: every inbound message, every button, no drawing
Next == SessionEvents

Spec == Init /\ [][Next]_vars

\* the drawing: pointer events and the clear button, with the handlers that read
\* or reset the drawing (save, recv_challenge) and those that decide what they do
NextStroke ==
    \/ PointerEvents
    \/ clr_onclick /\ UNCHANGED offGamePage
    \/ save /\ UNCHANGED offGamePage
    \/ \E r \in Rooms, uid \in OwnIds : info(r, uid) /\ UNCHANGED offGamePage
    \/ \E uid \in PeerIds : other_connection(Username(uid), uid) /\ UNCHANGED offGamePage
    \/ \E image \in Images : recv_img(image) /\ UNCHANGED offGamePage
    \/ ready /\ UNCHANGED offGamePage
    \/ \E data \in Challenges : recv_challenge(data) /\ UNCHANGED offGamePage

SpecStroke == Init /\ [][NextStroke]_vars

\* the display of the buttons when the page is loaded: recv_challenge "resets which buttons
\* should be displayed to the user before submission", the screen's "original state"
Original == [clr |-> "inline", submit |-> "inline", ready |-> "none"]

\* a button can be clicked while it is displayed
Shown(button) ==
    (IF display[button] = "unset" THEN Original[button] ELSE display[button]) # "none"

\* the session as the user can drive it: the inbound messages, and the buttons 'submit'
\* and 'ready' clicked only while they are displayed
ControlEvents ==
    \/ connect /\ UNCHANGED offGamePage
    \/ \E allowed \in BOOLEAN : allowed_check(allowed) /\ UNCHANGED offGamePage
    \/ \E r \in Rooms, uid \in OwnIds : info(r, uid) /\ UNCHANGED offGamePage
    \/ \E image \in Images : recv_img(image) /\ UNCHANGED offGamePage
    \/ \E image \in Images : onload(image) /\ UNCHANGED offGamePage
    \/ \E uid \in PeerIds : other_connection(Username(uid), uid) /\ UNCHANGED offGamePage
    \/ wait /\ UNCHANGED offGamePage
    \/ \E uid \in UserIds, result \in BOOLEAN, points \in Awards :
          PointsFit(uid, result, points) /\ result_img(uid, result, points) /\ UNCHANGED offGamePage
    \/ \E uid \in UserIds : other_ready(uid) /\ UNCHANGED offGamePage
    \/ \E data \in Challenges : recv_challenge(data) /\ UNCHANGED offGamePage
    \/ Shown("submit") /\ save /\ UNCHANGED offGamePage
    \/ Shown("ready") /\ ready /\ UNCHANGED offGamePage

NextControls == ControlEvents

SpecControls == Init /\ [][NextControls]_vars

\* ------------------------------------------------------------------ claims

BothSubmitted == status.yourself.submitted = TRUE /\ status.other_user.submitted = TRUE

\* the latest handler emitted exactly one 'image_submit' message
SubmitEmitted ==
    /\ Len(emitted) = 1
    /\ emitted[1].event = "message"
    /\ emitted[1].data.EventType = "image_submit"

Colour(result) == IF result THEN "#67e088" ELSE "red"

\* the text s contains the text sub
Contains(s, sub) ==
    \E i \in 1..(Len(s) - Len(sub) + 1) : SubSeq(s, i, i + Len(sub) - 1) = sub

\* C1, as claimed: in every reachable state the peer canvas is not displayed while
\* status.yourself.submitted is false.
C1_PeerCanvasNeverDisplayed ==
    status.yourself.submitted = FALSE => display["other_canvas"] # "inline"

\* C1, amended: in every reachable state in which the local participant has not
\* submitted and the peer's image of the current round has been received
\* (status.other_user.submitted is true), the peer canvas is hidden.
C1_PeerImageHidden ==
    (status.yourself.submitted = FALSE /\ status.other_user.submitted = TRUE)
        => display["other_canvas"] = "none"

\* a later round: the canvas was displayed by an earlier save(), a new challenge came,
\* and the peer's image arrived before the local submission
C1_Witness ==
    /\ handler = "recv_img"
    /\ status.yourself.submitted = FALSE
    /\ status.other_user.submitted = TRUE
    /\ display["clr"] = "inline"
    /\ status.yourself.points > 0
    /\ display["other_canvas"] = "none"

\* C2: a result_img step (the only caller of colour_results) taken while the two
\* submitted flags are not both true leaves both canvas colours and every display
\* property, the 'ready' control included, unchanged; taken while both are true it
\* changes nothing of them but the two colours and the 'ready' control.
C2_ColourOnlyWhenBothSubmitted ==
    [][handler' = "result_img" =>
          IF status'.yourself.submitted = TRUE /\ status'.other_user.submitted = TRUE
          THEN \A e \in Elements \ {"ready"} : display'[e] = display[e]
          ELSE backgroundColor' = backgroundColor /\ display' = display]_vars

\* a result arrived while only the local participant had submitted, and nothing was
\* coloured
C2_Witness ==
    /\ handler = "result_img"
    /\ status.yourself.submitted = TRUE
    /\ status.other_user.submitted = FALSE
    /\ resultSeen.yourself
    /\ display["ready"] # "block"
    /\ backgroundColor["drawing_canvas"] \notin {"red", "#67e088"}

\* C3, as claimed: once save(), recv_img and both participants' result_img have been
\* processed in a round, in whatever order, each canvas has the colour of its
\* participant's result.
C3_FinalColoursMatchResults ==
    (BothSubmitted /\ resultSeen.yourself /\ resultSeen.other_user)
        => /\ backgroundColor["drawing_canvas"] = Colour(status.yourself.result)
           /\ backgroundColor["other_canvas"] = Colour(status.other_user.result)

\* C4, as claimed: the number of keys of the snapshot set equals the number of
\* completed pointer-down -> pointer-up cycles since the last reset.
C4_KeyCountEqualsCycles ==
    Cardinality(ObjKeys(snapshots)) = cycles

\* C5, as claimed: when save() submits after a reset followed by exactly n completed
\* strokes (every pointer-down followed by its pointer-up, no other pointer-up), the
\* image_data of the image_submit message decodes to a mapping whose keys are exactly
\* Stroke1 .. Stroken.
C5_PayloadKeysStroke1ToN ==
    (/\ handler = "save"
     /\ SubmitEmitted
     /\ cycles = strokeNum
     /\ ~downPending
     /\ ~strayUp)
        => DOMAIN JSONparse(emitted[1].data.image_data)
               = {"Stroke" \o ToString(i) : i \in 1..cycles}

\* the part of the state that neither branch of save() may touch, and that the
\* waiting branch leaves alone together with display and status
SaveFrame ==
    UNCHANGED <<drawing_, prevX, currX, prevY, currY, waiting, room, own_id, kana, sound,
                sound_num, other_ctx, backgroundColor, innerHTML, loading, location>>

\* C6: a save() performed while waiting is true emits no message, leaves the status
\* records (submitted included) and every display property (the drawing controls
\* included) unchanged, and changes nothing but the local canvas, the snapshot set and
\* the stroke counter, which it clears.
C6_SaveWhileWaitingOnlyClears ==
    [][(handler' = "save" /\ waiting = TRUE) =>
          /\ emitted' = <<>>
          /\ status' = status
          /\ status'.yourself.submitted = FALSE
          /\ display' = display
          /\ ctx' = {}
          /\ snapshots' = <<>>
          /\ strokeNum' = 0
          /\ SaveFrame]_vars

\* save() ran while waiting, after a pointer-down had started a stroke
C6_Witness ==
    /\ handler = "save"
    /\ waiting = TRUE
    /\ drawing_ = TRUE
    /\ strokeNum = 0
    /\ snapshots = <<>>
    /\ ctx = {}
    /\ emitted = <<>>

\* C7, as claimed: a 'wait' signal re-emits the 'waiting' probe and puts the session in
\* AwaitingPeer (waiting is true), and from a 'wait' until the next other_connection
\* (the waiting overlay is displayed exactly then) a save() emits no message and does
\* not set submitted.
C7_WaitReturnsToAwaitingPeer ==
    [][/\ handler' = "wait" =>
             /\ emitted' = <<Message([UserID |-> own_id, EventType |-> "waiting",
                                      room |-> room])>>
             /\ waiting' = TRUE
       /\ (handler' = "save" /\ display["overlay"] = "block") =>
             /\ emitted' = <<>>
             /\ status'.yourself.submitted = status.yourself.submitted]_vars

\* C8: a save() performed while waiting is false emits exactly one message, an
\* image_submit carrying UserID = own_id, the room, the current sound_num and an
\* image_data that decodes to the snapshot set; it sets status.yourself.submitted,
\* hides the clear and submit controls, and changes no other field of either status
\* record.
C8_SaveSubmits ==
    [][(handler' = "save" /\ waiting = FALSE) =>
          /\ Len(emitted') = 1
          /\ emitted'[1].event = "message"
          /\ emitted'[1].data.EventType = "image_submit"
          /\ emitted'[1].data.UserID = own_id
          /\ emitted'[1].data.room = room
          /\ emitted'[1].data.sound_num = sound_num
          /\ LET image == JSONparse(emitted'[1].data.image_data)
             IN /\ DOMAIN image = ObjKeys(snapshots)
                /\ \A i \in 1..Len(snapshots) : image[snapshots[i].key] = snapshots[i].value
          /\ status'.yourself = [status.yourself EXCEPT !.submitted = TRUE]
          /\ status'.other_user = status.other_user
          /\ display'["clr"] = "none"
          /\ display'["submit"] = "none"]_vars

\* a submission of a drawing of at least two strokes, made after the peer's image came
C8_Witness ==
    /\ handler = "save"
    /\ SubmitEmitted
    /\ Len(emitted[1].data.image_data) >= 2
    /\ status.yourself.submitted = TRUE
    /\ status.other_user.submitted = TRUE
    /\ emitted[1].data.sound_num # 0

\* C9, as claimed: once allowed=false has been processed, the overlay stays displayed
\* and no later handler changes the status records or emits a message.
C9_IneligibleIsTerminal ==
    [][display["not_allowed"] = "block" =>
          /\ display'["not_allowed"] = "block"
          /\ status' = status
          /\ emitted' = <<>>]_vars

\* C9, amended: once allowed=false has been processed, the 'not_allowed' overlay stays
\* displayed whatever handler runs next.
C9_OverlayStaysDisplayed ==
    [][display["not_allowed"] = "block" => display'["not_allowed"] = "block"]_vars

\* the overlay is still displayed after a later allowed_check with allowed=true, and
\* the session has gone on behind it
C9_Witness ==
    /\ display["not_allowed"] = "block"
    /\ handler = "allowed_check"
    /\ status.yourself.submitted = TRUE
    /\ status.other_user.ready = TRUE

RecordedAs(uid) ==
    IF uid = status.yourself.user_id THEN "yourself"
    ELSE IF uid = status.other_user.user_id THEN "other_user"
    ELSE "nobody"

\* C11, as claimed: a result_img changes the result and the points of the participant
\* whose recorded identity equals the carried UserID only (the points grow by the
\* carried points iff the result is true); a result whose UserID matches neither
\* recorded identity changes neither participant's result or points.
C11_ResultAttributedByIdentity ==
    [][\A uid \in UserIds, result \in BOOLEAN, points \in Awards :
          result_img(uid, result, points) =>
              \A who \in {"yourself", "other_user"} :
                  IF who = RecordedAs(uid)
                  THEN /\ status'[who].result = result
                       /\ status'[who].points =
                              status[who].points + (IF result THEN points ELSE 0)
                  ELSE /\ status'[who].result = status[who].result
                       /\ status'[who].points = status[who].points]_vars

\* C12: the ready action sets status.yourself.ready and emits exactly one user_ready
\* message whose 'both' flag is (self.ready AND peer.ready) as they are when it is
\* sent; and peer.ready is true exactly from an other_ready of the recorded peer until
\* the next recv_challenge: it is set by no other handler and cleared by no other one.
C12_ReadyEmitsBoth ==
    [][/\ handler' = "ready" =>
             /\ status'.yourself.ready = TRUE
             /\ Len(emitted') = 1
             /\ emitted'[1].event = "message"
             /\ emitted'[1].data.EventType = "user_ready"
             /\ emitted'[1].data.both =
                    (status'.yourself.ready /\ status'.other_user.ready)
             /\ status'.other_user.ready = status.other_user.ready
       /\ (~status.other_user.ready /\ status'.other_user.ready) =>
             \E uid \in UserIds : uid = status.other_user.user_id /\ other_ready(uid)
       /\ (status.other_user.ready /\ ~status'.other_user.ready) =>
             handler' = "recv_challenge"
       /\ \A uid \in UserIds :
             (other_ready(uid) /\ uid = status.other_user.user_id) =>
                 status'.other_user.ready]_vars

\* the peer was ready first: the local ready action reported both = true
C12_Witness ==
    /\ handler = "ready"
    /\ Len(emitted) = 1
    /\ emitted[1].data.both = TRUE
    /\ status.yourself.ready
    /\ status.other_user.ready
    /\ status.other_user.user_id # 0

\* C13: an other_ready sets status.other_user.ready when the carried UserID equals the
\* recorded peer identity and changes no status field otherwise; it emits nothing and
\* leaves the challenge, both canvases, every control and all the rest unchanged.
C13_OtherReadyFrame ==
    [][\A uid \in UserIds :
          other_ready(uid) =>
              /\ status' = IF uid = status.other_user.user_id
                           THEN [status EXCEPT !.other_user.ready = TRUE]
                           ELSE status
              /\ emitted' = <<>>
              /\ UNCHANGED <<kana, sound, sound_num, waiting, room, own_id, resultSeen>>
              /\ UNCHANGED <<ctx, other_ctx, display, backgroundColor, innerHTML, loading>>
              /\ UNCHANGED <<snapshots, strokeNum, drawing_>>]_vars

\* an other_ready of the peer arrived after both had submitted and been marked, before
\* the local participant was ready
C13_Witness ==
    /\ handler = "other_ready"
    /\ status.other_user.ready
    /\ ~status.yourself.ready
    /\ display["ready"] = "block"
    /\ display["ready_message"] # "block"
    /\ emitted = <<>>

\* ---- matching game

\* the entry of 'characters' the n-th card of the page stands for
CharOf(n) == characters[cards[n].id]

\* the card of the page that stands for the entry c
CardOf(c) == CHOOSE m \in 1..Len(cards) : CharOf(m) = c

Locked(c) == \E i \in 1..Len(not_allowed) : not_allowed[i] = c

\* a click on the n-th card that this_one accepts as the second card of a pair
SecondOfPair(n) == this_one(n) /\ ~Locked(CharOf(n)) /\ Len(selected) = 1

\* the cards as they are but for the two of the pair, which get the class and the onclick
WithPair(n, className, onclick) ==
    [m \in 1..Len(cards) |->
        IF m \in {n, CardOf(selected[1])}
        THEN [cards[m] EXCEPT !.className = className, !.onclick = onclick]
        ELSE cards[m]]

\* C14: at rest, that is after every selection event (this_one with its check),
\* 'selected' holds no entry or one: the push of an event makes it two at most, and two
\* are compared and dropped before the event ends, so no third entry is ever added.
C14_SelectedAtMostOne == Len(selected) \in {0, 1}

\* a second card was accepted, the pair compared, and 'selected' is empty again
C14_Witness ==
    /\ handler = "this_one"
    /\ accepted
    /\ selected = <<>>
    /\ match_text.result \in {"Correct!", "Incorrect!"}
    /\ cards # <<>>

\* C15: a click on a card whose entry is in not_allowed changes nothing (selected,
\* not_allowed, found, points, the cards) and sends nothing; any other click pushes the
\* entry onto 'selected' and onto not_allowed: as a first card it stays selected and its
\* card is disabled, as a second card the pair is compared and 'selected' emptied.
C15_LockedCardRejected ==
    [][\A n \in 1..FullDeck :
          this_one(n) =>
              IF Locked(CharOf(n))
              THEN /\ UNCHANGED <<characters, selected, not_allowed, found, match_points>>
                   /\ UNCHANGED <<cards, match_text, match_overlay>>
                   /\ emitted' = <<>>
              ELSE IF selected = <<>>
              THEN /\ selected' = <<CharOf(n)>>
                   /\ not_allowed' = Append(not_allowed, CharOf(n))
                   /\ cards' = [cards EXCEPT ![n].className = "disabled_selected"]
                   /\ UNCHANGED <<characters, found, match_points, match_text>>
                   /\ emitted' = <<>>
              ELSE /\ selected' = <<>>
                   /\ match_text'.result \in {"Correct!", "Incorrect!"}]_vars

\* a click on a selected card, with a pair already found, was rejected
C15_Witness ==
    /\ handler = "this_one"
    /\ ~accepted
    /\ Len(selected) = 1
    /\ Len(found) = 2
    /\ Len(not_allowed) = 3

C17_MismatchReleasesPair ==
    [][\A n \in 1..FullDeck :
          (SecondOfPair(n) /\ selected[1][2] # CharOf(n)[2]) =>
              /\ selected' = <<>>
              /\ not_allowed' = SelectSeq(not_allowed, LAMBDA c : c # selected[1])
              /\ ~\E i \in 1..Len(not_allowed') : not_allowed'[i] = CharOf(n)
              /\ cards' = WithPair(n, "match_card", "this_one")
              /\ match_text'.result = "Incorrect!"
              /\ UNCHANGED <<match_points, found, characters>>
              /\ emitted' = <<>>]_vars

\* a pair that did not match was released while another pair stays found and locked
C17_Witness ==
    /\ handler = "this_one"
    /\ accepted
    /\ match_text.result = "Incorrect!"
    /\ selected = <<>>
    /\ Len(found) = 2
    /\ not_allowed = found
    /\ Cardinality({m \in 1..Len(cards) : cards[m].onclick = "this_one"}) = 8

\* the step tears the deck down
DeckReset == characters # <<>> /\ characters' = <<>>

\* C18, as claimed: the deck is reset exactly when a full round of 10 pairs has been
\* found, not before.
C18_ResetAfterTenPairs ==
    [][DeckReset => (Len(found) + 2) \div 2 = 10]_vars

\* C18, amended: the deck is reset (characters, found and not_allowed emptied, every
\* card removed, done_matches then match_connect sent) exactly in the call of check() that brings
\* 'found' to 10 entries, a full round of 5 pairs, which is when 'found' covers the whole
\* deck of 10 cards; at rest 'found' holds fewer than 10 entries.
C18_ResetWhenFoundCoversDeck ==
    [][/\ DeckReset =>
             /\ handler' = "this_one"
             /\ Len(found) + 2 = FullDeck
             /\ Len(found) + 2 = Len(characters)
             /\ \A i \in 1..Len(characters) :
                    \/ \E j \in 1..Len(found) : found[j] = characters[i]
                    \/ selected = <<characters[i]>>
                    \/ \E n \in 1..FullDeck : SecondOfPair(n) /\ CharOf(n) = characters[i]
             /\ found' = <<>> /\ not_allowed' = <<>> /\ selected' = <<>>
             /\ cards' = <<>>
             /\ emitted' = <<Message([EventType |-> "done_matches"]),
                             Message([EventType |-> "match_connect"])>>
       /\ (\E n \in 1..FullDeck :
              /\ SecondOfPair(n)
              /\ selected[1][2] = CharOf(n)[2]
              /\ Len(found) + 2 = FullDeck) => DeckReset
       /\ (\E i \in 1..Len(emitted') : emitted'[i].data.EventType = "done_matches") =>
              DeckReset
       /\ Len(found') < FullDeck]_vars

\* the fifth pair was found: the deck is gone and a new one is requested
C18_Witness ==
    /\ handler = "this_one"
    /\ characters = <<>>
    /\ cards = <<>>
    /\ found = <<>>
    /\ not_allowed = <<>>
    /\ match_points = 10
    /\ emitted = <<Message([EventType |-> "done_matches"]),
                   Message([EventType |-> "match_connect"])>>

\* ---- chat

\* the messages of both collections, and whether the page was just rendered from them
BothCollections == chat_info.yours.messages \o chat_info.others.messages
JustRendered == handler \in {"recv_previous", "new_message"}

\* the time of the message with this text
TimeOf(text) == (CHOOSE m \in ChatMessages : m[1] = text)[2]

\* the nodes in reading order: the container shows its children in reverse (bubble()
\* reverses the list for a column-reverse container), the first node at the bottom
ReadingOrder == [i \in 1..Len(nodes) |-> nodes[Len(nodes) + 1 - i]]

\* C19, as claimed: once rendered, the page holds every message of both collections
\* exactly once, in one sequence of ascending time; messages of the same time are all
\* rendered.
C19_EveryMessageRenderedOnce ==
    JustRendered =>
        /\ \A m \in ChatMessages :
               Cardinality({i \in 1..Len(nodes) : nodes[i].text = m[1]})
                   = Cardinality({j \in 1..Len(BothCollections) : BothCollections[j] = m})
        /\ \A i, j \in 1..Len(nodes) :
               i < j => TimeOf(ReadingOrder[i].text) <= TimeOf(ReadingOrder[j].text)

\* C20: message_order is idempotent: run again on the page it has just rendered, it
\* yields the same nodes in the same order and the same counters; and after any events
\* the number of message nodes is your_ind + other_ind, no two with the same id.
C20_RenderIdempotent ==
    /\ Len(nodes) = your_ind + other_ind
    /\ \A i, j \in 1..Len(nodes) : nodes[i].id = nodes[j].id => i = j
    /\ JustRendered =>
           LET again == message_order(ChatState(chat_info))
           IN /\ again.nodes = nodes
              /\ again.your_ind = your_ind
              /\ again.other_ind = other_ind

\* a new message was rendered over an earlier rendering: one node on the own side, two
\* on the other
C20_Witness ==
    /\ handler = "new_message"
    /\ your_ind = 1
    /\ other_ind = 2
    /\ Len(nodes) = 3
    /\ Len(BothCollections) = 3

\* the number of different times among the messages of both collections
DifferentTimes == Cardinality({BothCollections[i][2] : i \in 1..Len(BothCollections)})

\* C21, as claimed: bubble never returns from its inner loop, so no recv_previous or
\* new_message event with at least one message completes its render.
C21_RenderNeverCompletes == ~(JustRendered /\ BothCollections # <<>>)

\* C21, amended: the loops of bubble are never entered (the mapping has no length), so
\* bubble returns; every recv_previous or new_message event completes, and it leaves one
\* node per different time of the messages on the page.
C21_RenderCompletes ==
    /\ Responsive
    /\ JustRendered => Len(nodes) = DifferentTimes

\* four messages of three different times were rendered: newest first in the document
C21_Witness ==
    /\ handler = "recv_previous"
    /\ Len(BothCollections) = 4
    /\ Len(nodes) = 3
    /\ nodes[1].text = "d"
    /\ nodes[2].text = "c"
    /\ nodes[3].text = "b"

\* ---- dictionary

\* C22: a dictionary_results message leaves exactly one box per entry of its payload on
\* the page, numbered 1..n in payload order and showing that entry, and no box of an
\* earlier search; current_index is always the number of boxes on the page (0 after an
\* empty payload).
C22_ResultsRebuilt ==
    [][/\ \A results \in SeqUpTo(Entries, MaxResults) :
             dictionary_results(results) =>
                 /\ Len(search_results') = Len(results)
                 /\ \A x \in 1..Len(results) :
                        /\ search_results'[x].id = x
                        /\ search_results'[x].primary = results[x].PrimaryReading
                        /\ search_results'[x].appended =
                               <<"Other Readings:">> \o results[x].Readings
                                   \o <<"Meanings:">> \o results[x].Meanings
       /\ current_index' = Len(search_results')]_vars

\* a search with one result
C22_Witness ==
    /\ handler = "dictionary_results"
    /\ current_index = 1
    /\ Len(search_results) = 1
    /\ search_results[1].primary = "inu"
    /\ search_results[1].appended = <<"Other Readings:", "Meanings:", "dog", "hound">>

\* ---- homepage

\* C23: after every 'leaderboard' message the table holds exactly the rows of that
\* message, ranked #1..#n, and no row of an earlier message.
C23_TableHoldsLatestLeaders ==
    [][\A users \in SeqUpTo(Leaders, MaxLeaders) :
           leaderboard(users) => leaderboard_table' = leaderRows(users)]_vars

\* ---- forms

\* the text a page shows for a list of errors: each string followed by a line break
Displayed(list) ==
    [n \in 1..(2 * Len(list)) |-> IF n % 2 = 1 THEN TextNode(list[(n + 1) \div 2]) ELSE BR]

\* C24: after login_error, signup_errors, change_errors or password_errors the error
\* display of the page holds exactly the strings of that message, verbatim and in payload
\* order, each followed by a line break, and nothing of an earlier message; an empty list
\* leaves the display empty.
C24_ErrorsOfLatestMessage ==
    [][\A list \in ErrorLists :
           /\ login_error(list) \/ signup_errors(list) => errors'["forms"] = Displayed(list)
           /\ change_errors(list) \/ password_errors(list) =>
                  errors'["profile"] = Displayed(list)]_vars

\* two errors shown on the login page, one on the settings page
C24_Witness ==
    /\ handler = "change_errors"
    /\ serialise(errors["forms"]) = <<"Password too short", "<br>", "Username is taken", "<br>">>
    /\ serialise(errors["profile"]) = <<"Username is taken", "<br>">>

\* ---- profile

\* C25: no error escapes user_data or current_settings, whatever elements the open page
\* lacks; and when the progress-page block of user_data fails, the friends-page block
\* still runs: the friend requests and the friends of the message are appended to their
\* lists where the page holds the template and the list.
C25_ErrorsSuppressed ==
    [][/\ \A data \in UserData :
             user_data(data) =>
                 /\ ~escaped'
                 /\ data.lists /\ {"request_friend_element", "request_friends_list",
                                   "friend_element", "friends_list"}
                                      \subseteq present(profile_href)
                        => /\ request_friends_list' =
                                  request_friends_list \o clones(data.friend_requests, 1)
                           /\ friends_list' = friends_list \o clones(data.friends, 0)
                 /\ data.lists /\ data.friend_requests = <<>>
                        /\ {"friend_element", "friends_list"} \subseteq present(profile_href)
                        => friends_list' = friends_list \o clones(data.friends, 0)
       /\ \A data \in Settings : current_settings(data) => ~escaped']_vars

\* user_data on the friends page: the progress-page block failed at its first holder and
\* the friend request and the friend were rendered
C25_Witness ==
    /\ handler = "user_data"
    /\ profile_href = "friends"
    /\ fields["points_holder"] = ""
    /\ Len(request_friends_list) = 1
    /\ Len(friends_list) = 1
    /\ ~escaped

\* ---- single player drawing

\* C26: a result_single message adds its points to the score when the result is correct and
\* leaves the score alone when it is not, and nothing else changes the score, so the score
\* is the sum of the points of the correct results; an incorrect result displays the
\* correction panel with the reference character, and every result reveals the continue
\* control.
C26_ScoreSumsCorrectResults ==
    [][/\ \A data \in SingleResults :
             result_single(data) =>
                 /\ single_points' = single_points + (IF data.result THEN data.points ELSE 0)
                 /\ ~data.result => /\ single_display'["incorrect_drawing"] = "block"
                                    /\ info_panel'.src = data.char_animation
                 /\ single_display'["continue"] = "block"
       /\ handler' # "result_single" => single_points' = single_points]_vars

\* an incorrect result after a correct one
C26_Witness ==
    /\ handler = "result_single"
    /\ single_points = 1
    /\ canvas_colour = "#ff0000"
    /\ single_display["incorrect_drawing"] = "block"
    /\ single_display["continue"] = "block"

\* C27: immediately after erase() and immediately after every recv_challenge message the
\* snapshot set is empty and the stroke counter is 0.
C27_ChallengeStartsEmpty ==
    [][handler' \in {"erase", "recv_challenge"} => snapshots' = <<>> /\ strokeNum' = 0]_vars

\* ---- stroke capture

\* what the program keeps of the drawing and of the session (the history variables
\* are not part of it)
Drawn == <<prevX, currX, prevY, currY, snapshots, strokeNum, ctx>>

\* C28: a pointer-move changes neither the stroke counter nor the snapshot set nor the
\* status, and while drawing_ is false it changes nothing at all; a pointer-out sets
\* drawing_ to false and changes nothing else, so it stores no snapshot.
C28_MoveAndOutStoreNothing ==
    [][\A p \in Pos :
           /\ findcoords("move", p) =>
                  /\ strokeNum' = strokeNum
                  /\ snapshots' = snapshots
                  /\ status' = status
                  /\ ~drawing_ => /\ drawing_' = drawing_
                                  /\ Drawn' = Drawn
                                  /\ <<sessionVars, pageVars>>' = <<sessionVars, pageVars>>
           /\ findcoords("out", p) =>
                  /\ drawing_' = FALSE
                  /\ Drawn' = Drawn
                  /\ <<sessionVars, pageVars>>' = <<sessionVars, pageVars>>]_vars

\* the pointer left the canvas during the first stroke: the stroke is counted, no
\* snapshot is stored
C28_Witness ==
    /\ handler = "findcoords"
    /\ downPending
    /\ ~drawing_
    /\ strokeNum = 1
    /\ snapshots = <<>>
    /\ ctx # {}

\* ---- collaborative session: the peer canvas

\* the peer's image of the current round has been received and an image has been decoded
\* onto the peer canvas since the round began
PeerDrawingOnCanvas == status.other_user.submitted = TRUE /\ other_ctx # {}

\* C29: in every reachable state, whatever the order of recv_img, save(), recv_challenge
\* and the onload callbacks, the peer canvas is not at once displayed and holding the
\* peer's drawing of the current round while status.yourself.submitted is false.
C29_NoPeekAtPeerDrawing ==
    ~(/\ display["other_canvas"] # "none"
      /\ PeerDrawingOnCanvas
      /\ status.yourself.submitted = FALSE)

\* a later round: the peer's image was received and decoded before the local submission,
\* on a canvas that the save() of the round before had displayed
C29_Witness ==
    /\ handler = "onload"
    /\ PeerDrawingOnCanvas
    /\ status.yourself.submitted = FALSE
    /\ status.yourself.points > 0
    /\ display["submit"] = "inline"
    /\ display["other_canvas"] = "none"

\* ---- collaborative session: the ready control

\* C30: in every state of a round in which the local participant has submitted, the peer's
\* image has been received and the result_img messages of both participants have been
\* received, the 'ready' control is displayed.
C30_ReadyRevealedWhenRoundComplete ==
    (/\ status.yourself.submitted = TRUE
     /\ status.other_user.submitted = TRUE
     /\ resultSeen.yourself
     /\ resultSeen.other_user)
        => display["ready"] = "block"

\* ---- collaborative session: the colours

\* C31: a canvas has the 'incorrect' colour only if a result_img with result false for its
\* participant has been received in the current round.
C31_IncorrectColourOnlyAfterResult ==
    /\ backgroundColor["drawing_canvas"] = "red"
           => resultSeen.yourself /\ status.yourself.result = FALSE
    /\ backgroundColor["other_canvas"] = "red"
           => resultSeen.other_user /\ status.other_user.result = FALSE

\* ---- collaborative session: the ready control and the ready flags

\* C32: the 'ready' control is displayed only while both submitted flags are true, and
\* status.yourself.ready is true only then; after recv_challenge the control is hidden and
\* both ready flags and both submitted flags are false.
C32_ReadyOnlyWhenBothSubmitted ==
    /\ display["ready"] = "block" => BothSubmitted
    /\ status.yourself.ready = TRUE => BothSubmitted
    /\ handler = "recv_challenge" =>
           /\ display["ready"] = "none"
           /\ status.yourself.ready = FALSE /\ status.other_user.ready = FALSE
           /\ status.yourself.submitted = FALSE /\ status.other_user.submitted = FALSE

\* the local participant clicked the displayed control after the peer had done so
C32_Witness ==
    /\ handler = "ready"
    /\ display["ready"] = "block"
    /\ status.yourself.ready = TRUE
    /\ status.other_user.ready = TRUE
    /\ BothSubmitted

\* ---- two clients: ready

\* C33: once both participants have performed the ready action in a round and every
\* relayed other_ready has been delivered, at least one of the emitted user_ready
\* messages carries both = true.
C33_SomeReadyCarriesBoth ==
    (/\ \A c \in Clients : peers[c].ready /\ in_flight[c] = 0)
        => \E n \in 1..Len(user_readys) : user_readys[n].both

\* ---- collaborative session: the peer canvas after a new challenge

\* C34: while no recv_img has been processed since the last recv_challenge (the peer's
\* submitted flag is false), the peer canvas is blank.
C34_PeerCanvasBlankUntilNewImage ==
    status.other_user.submitted = FALSE => other_ctx = {}

\* ---- collaborative session: one submission per round

\* C35: from a successful save() to the next recv_challenge the 'submit' and 'clear'
\* buttons are hidden and status.yourself.submitted stays true, whatever inbound messages
\* come in between, and no second image_submit message is emitted in the round.
C35_OneSubmissionPerRound ==
    [][/\ status'.yourself.submitted = TRUE =>
              display'["submit"] = "none" /\ display'["clr"] = "none"
       /\ status.yourself.submitted = TRUE /\ handler' # "recv_challenge" =>
              /\ status'.yourself.submitted = TRUE
              /\ ~SubmitEmitted']_vars

\* after the submission the peer's image and both results came in, and the peer is ready
C35_Witness ==
    /\ status.yourself.submitted = TRUE
    /\ status.other_user.submitted = TRUE
    /\ resultSeen.yourself /\ resultSeen.other_user
    /\ status.other_user.ready = TRUE
    /\ handler = "wait"
    /\ display["submit"] = "none"
    /\ display["clr"] = "none"

\* ---- single player drawing: the identity of a submission

\* the latest handler emitted an 'image_submit_single' message
SingleSubmitEmitted ==
    /\ Len(emitted) = 1
    /\ emitted[1].data.EventType = "image_submit_single"

\* C36: the UserID of an emitted image_submit_single message is the UserID the most recent
\* 'info' message delivered.
C36_SubmissionCarriesDeliveredId ==
    (SingleSubmitEmitted /\ delivered_id # 0) => emitted[1].data.UserID = delivered_id

\* ---- matching game: found, the locked set and the score

\* the step matches a pair: two entries more in 'found', or the deck completed and reset
PairMatched == Len(found') = Len(found) + 2 \/ DeckReset

\* C37: after every step every entry of 'found' is in not_allowed and 'found' holds an
\* even number of entries; the second card of a compared pair is never the first one;
\* the score grows by 2 in every step that matches a pair and changes in no other step,
\* the step that resets the deck and requests a new one included, so it is 2 times the
\* number of pairs matched since the page was loaded.
C37_FoundLockedEvenAndScored ==
    [][/\ \A i \in 1..Len(found') : indexOf(not_allowed', found'[i]) # -1
       /\ Len(found') % 2 = 0
       /\ \A n \in 1..FullDeck :
              (this_one(n) /\ accepted' /\ Len(selected) = 1) =>
                  /\ CharOf(n) # selected[1]
                  /\ CardOf(selected[1]) # n
       /\ match_points' = match_points + (IF PairMatched THEN MatchAward ELSE 0)
       /\ match_text'.result = "Correct!" /\ handler' = "this_one" /\ accepted'
              /\ Len(selected) = 1 => PairMatched]_vars

\* four pairs are found and a fifth card is selected: eight points, nine locked cards
C37_Witness ==
    /\ handler = "this_one"
    /\ accepted
    /\ Len(found) = 8
    /\ Len(selected) = 1
    /\ Len(not_allowed) = 9
    /\ match_points = 8
    /\ \A i \in 1..Len(found) : Locked(found[i])

\* ---- chat: the side of a rendered message

\* the n-th node of the page shows the i-th message of the two collections
Shows(n, i) == nodes[n].text = BothCollections[i][1]

\* C38: after a rendering, a node is on the local user's side ("your_message") exactly
\* when the sender of the message it shows is the local user, in whichever of the two
\* collections new_message or recv_previous put the message.
C38_SideFollowsSender ==
    JustRendered =>
        \A n \in 1..Len(nodes) :
            /\ \E i \in 1..Len(BothCollections) : Shows(n, i)
            /\ \A i \in 1..Len(BothCollections) :
                   Shows(n, i) =>
                       (nodes[n].id[1] = "your_message"
                            <=> BothCollections[i][3] = chat_info.yours.id_)

\* a message of the local user that new_message appended to 'others' is rendered on the
\* local user's side, next to a message of the peer on the other side
C38_Witness ==
    /\ handler = "new_message"
    /\ chat_info.yours.id_ # 0
    /\ \E i \in 1..Len(chat_info.others.messages) :
           /\ chat_info.others.messages[i][3] = chat_info.yours.id_
           /\ \E n \in 1..Len(nodes) :
                  /\ nodes[n].text = chat_info.others.messages[i][1]
                  /\ nodes[n].id[1] = "your_message"
    /\ \E n \in 1..Len(nodes) : nodes[n].id[1] = "other_message"

====
